---- MODULE Spec2Model ----
(***************************************************************************)
(* State-machine model of the API worker of the ibge-map repository:       *)
(* the per-client fixed-window rate limiter (lib/rate-limit.ts), the HTTP  *)
(* boundary (index.ts, routes/data.ts) and the three-tier read-through     *)
(* cache (lib/cache.ts).                                                   *)
(*                                                                         *)
(* A request is one slot of Reqs.  Every await of the handlers is a step   *)
(* boundary, so concurrent requests interleave exactly where the event     *)
(* loop lets them.  Work passed to executionCtx.waitUntil is a task in bg  *)
(* that settles later (or never).                                          *)
(***************************************************************************)
EXTENDS Integers, Sequences, FiniteSets, TLC

\* ---------------------------------------------------------------- bounds
MaxWindows == 1        \* SpecRate: the clock reaches MaxWindows window boundaries
MaxLimit == 2          \* largest configured RATE_LIMIT_PER_MINUTE
TtlSeconds == 60       \* the ttlSeconds argument the handlers pass
MaxOver == 2           \* SpecRate: requests of one window beyond the limit
MaxParams == 3         \* SpecKey: largest number of parameters of a cache key
MaxDigits == 7         \* SpecParse: digits of the integer part of a numeral
MaxRows == 2           \* SpecSeries: rows of an upstream payload
MaxPerUf == 3          \* SpecExpand: municipalities of the largest UF
MaxValue == 3          \* SpecSynth: largest value of a component series
MaxHeader == 3         \* SpecClient: longest x-forwarded-for value

\* ------------------------------------------------------- program constants
WindowMs == 60000      \* rate-limit.ts: now + 60_000
DefaultLimit == 120    \* rate-limit.ts: Number(env.RATE_LIMIT_PER_MINUTE ?? '120')
DefaultTtl == 600      \* cache.ts: Number(env.CACHE_TTL_SECONDS ?? '600')

Reqs == {1, 2}                         \* request slots of one behaviour
Keys == {"data::k1", "data::k2"}       \* results of cacheKeyFrom
Clients == {"anonymous"}               \* results of getClientKey
Tiers == <<"edge", "kv", "pg">>        \* probe order of cachedJson
TierSet == {"edge", "kv", "pg"}

NoEntry == [none |-> TRUE]
NoBucket == [absent |-> TRUE]

\* The instants the clock of SpecRate visits: one millisecond either side
\* of each window boundary.
Instants == {w * WindowMs + d : w \in 0..MaxWindows, d \in {-1, 0, 1}} \cap Nat

VARIABLES
  env,        \* bindings: which tiers exist, RATE_LIMIT_PER_MINUTE
  now,        \* Date.now()
  buckets,    \* rate-limit.ts `buckets` map: client key -> bucket
  edge,       \* Cache API contents: key -> entry
  kv,         \* CACHE_KV contents: key -> entry
  pg,         \* cache_requests rows: key -> entry
  bg,         \* writes handed to executionCtx.waitUntil that have not landed
  pc,         \* per request: position in the handler chain
  rq,         \* per request: its inputs (route, client, cache key)
  reads,      \* per request: tiers read so far, in order, with the outcome
  invoked,    \* per request: number of producer invocations
  sched,      \* per request: writes it handed to waitUntil
  resp,       \* per request: the response sent
  produced,   \* number of producer results so far (names fresh payloads)
  rl,         \* last rate-limiter decision (client, bucket before, outcome)
  arg,        \* the arguments of the last call of a function studied alone
  ret         \* what that call returned

vars == <<env, now, buckets, edge, kv, pg, bg, pc, rq, reads, invoked, sched,
          resp, produced, rl, arg, ret>>

cacheVars == <<edge, kv, pg, bg>>
reqVars == <<pc, rq, reads, invoked, sched, resp, produced>>
callVars == <<arg, ret>>

\* ------------------------------------------------------------ data shapes
NoPayload == [id |-> 0, form |-> "none"]
NoDecision == [client |-> "none", before |-> NoBucket, at |-> 0,
               proceed |-> FALSE, limit |-> 0, status |-> 0,
               winStart |-> 0, winN |-> 0]
\* rlimit: what the rate limiter did with the request; after: the requests
\* that had been answered when this one entered cachedJson.
\* at: Date.now() when the rate limiter saw the request.
\* entry: whether the catalogue entry asked for is supported; year: whether
\* the year asked for (the entry's defaultYear when none is given) lies in
\* the entry's range; upstream and
\* fetches: how the upstream calls of the request's producer ended, and how
\* often the URL that failed was requested.
NoInput == [route |-> "none", client |-> "none", key |-> "none", at |-> 0,
            rlimit |-> "none", after |-> {}, entry |-> "none", year |-> "none",
            upstream |-> "none", fetches |-> 0]
Unset == [unset |-> TRUE]
Str(n) == [v |-> n]
NoCall == [fn |-> "none"]

\* Rows and entries that earlier worker invocations (or the Prisma side of
\* the repository) left in the persistent stores, one distinct payload per
\* tier.
SeedEntry(tier) ==
  [payload |-> [id |-> [edge |-> 91, kv |-> 92, pg |-> 93][tier],
                form |-> IF tier = "pg" THEN "jsonb" ELSE "object"],
   expiresAt |-> TtlSeconds * 1000]

EmptyStore == [k \in Keys |-> NoEntry]
SeededStore(tier) == [k \in Keys |-> IF k = "data::k1" THEN SeedEntry(tier) ELSE NoEntry]

\* ------------------------------------------------------------------- Init
EnvSet ==
  [edge : BOOLEAN, kv : BOOLEAN, db : BOOLEAN,
   limit : {Str(n) : n \in 1..MaxLimit}, catalog : {"released"}]

InitRequests ==
  /\ pc = [r \in Reqs |-> "idle"]
  /\ rq = [r \in Reqs |-> NoInput]
  /\ reads = [r \in Reqs |-> <<>>]
  /\ invoked = [r \in Reqs |-> 0]
  /\ sched = [r \in Reqs |-> {}]
  /\ resp = [r \in Reqs |-> [status |-> 0, cache |-> "none", payload |-> NoPayload,
                            code |-> "none", src |-> "none"]]
  /\ produced = 0

Init ==
  /\ env \in EnvSet
  /\ now = 0
  /\ buckets = [c \in Clients |-> NoBucket]
  /\ edge \in (IF env.edge THEN {EmptyStore, SeededStore("edge")} ELSE {EmptyStore})
  /\ kv \in (IF env.kv THEN {EmptyStore, SeededStore("kv")} ELSE {EmptyStore})
  /\ pg \in (IF env.db THEN {EmptyStore, SeededStore("pg")} ELSE {EmptyStore})
  /\ bg = {}
  /\ InitRequests
  /\ rl = NoDecision
  /\ arg = NoCall /\ ret = NoCall

\* ------------------------------------------------------------ rate limiter
\* Number(c.env.RATE_LIMIT_PER_MINUTE ?? '120')
LimitOf(e) == IF e.limit = Unset THEN DefaultLimit ELSE e.limit.v

\* Variants of the middleware with a plausible slip: a refused request that
\* restarts the window; an admitted request whose increment is lost; the
\* comparison with the limit off by one; a bucket reset only when it is
\* absent.
rateLimitMiddlewareRefusalExtends(bucket, limit, t) ==
  IF bucket = NoBucket \/ bucket.resetAt < t
  THEN [bucket |-> [count |-> 1, resetAt |-> t + WindowMs], proceed |-> TRUE]
  ELSE IF bucket.count >= limit
       THEN [bucket |-> [bucket EXCEPT !.resetAt = t + WindowMs], proceed |-> FALSE]
       ELSE [bucket |-> [bucket EXCEPT !.count = @ + 1], proceed |-> TRUE]
rateLimitMiddlewareLostIncrement(bucket, limit, t) ==
  IF bucket = NoBucket \/ bucket.resetAt < t
  THEN [bucket |-> [count |-> 1, resetAt |-> t + WindowMs], proceed |-> TRUE]
  ELSE IF bucket.count >= limit
       THEN [bucket |-> bucket, proceed |-> FALSE]
       ELSE [bucket |-> bucket, proceed |-> TRUE]
rateLimitMiddlewareOffByOne(bucket, limit, t) ==
  IF bucket = NoBucket \/ bucket.resetAt < t
  THEN [bucket |-> [count |-> 1, resetAt |-> t + WindowMs], proceed |-> TRUE]
  ELSE IF bucket.count > limit
       THEN [bucket |-> bucket, proceed |-> FALSE]
       ELSE [bucket |-> [bucket EXCEPT !.count = @ + 1], proceed |-> TRUE]
rateLimitMiddlewareNoRollover(bucket, limit, t) ==
  IF bucket = NoBucket
  THEN [bucket |-> [count |-> 1, resetAt |-> t + WindowMs], proceed |-> TRUE]
  ELSE IF bucket.count >= limit
       THEN [bucket |-> bucket, proceed |-> FALSE]
       ELSE [bucket |-> [bucket EXCEPT !.count = @ + 1], proceed |-> TRUE]

\* The synchronous part of the middleware: the bucket it leaves and whether
\* next() is called (proceed) or ApiError(429) is thrown.
rateLimitMiddleware(bucket, limit, t) ==
  IF bucket = NoBucket \/ bucket.resetAt < t
  THEN [bucket |-> [count |-> 1, resetAt |-> t + WindowMs], proceed |-> TRUE]
  ELSE IF bucket.count >= limit
       THEN [bucket |-> bucket, proceed |-> FALSE]
       ELSE [bucket |-> [bucket EXCEPT !.count = @ + 1], proceed |-> TRUE]

\* Variant: the 429 is recorded but the chain goes on to the route.
afterRateLimitFallThrough(proceed) == "route"

\* What the handler chain does after the middleware decided: the route
\* handler runs only through next(); the thrown ApiError ends the chain.
afterRateLimit(proceed) == IF proceed THEN "route" ELSE "done"

\* toErrorResponse: an ApiError keeps its status and code, anything else is
\* a 500 INTERNAL_ERROR.
ApiError(status, code) ==
  [status |-> status, cache |-> "none", payload |-> NoPayload, code |-> code,
   src |-> "none"]
toErrorResponse(error) ==
  IF error.api THEN ApiError(error.status, error.code)
  ELSE ApiError(500, "INTERNAL_ERROR")
Thrown(status, code) == [api |-> TRUE, status |-> status, code |-> code]
Rejected == [api |-> FALSE, status |-> 0, code |-> "none"]

\* c.json(...) of the routes that use no cache
jsonOk == [status |-> 200, cache |-> "none", payload |-> NoPayload,
           code |-> "none", src |-> "none"]
\* jsonResponse(payload, cacheStatus)
jsonResponse(payload, cacheStatus, src) ==
  [status |-> 200, cache |-> cacheStatus, payload |-> payload,
   code |-> "none", src |-> src]

Decide(c) == rateLimitMiddleware(buckets[c], LimitOf(env), now)
\* The record of a decision.  winStart/winN count the requests of the
\* client's current 60-second window independently of the bucket: a window
\* opens with the first request, and with the first request that arrives
\* after the previous window's 60 seconds are over.
Decision(c) ==
  LET opens == rl.client = "none" \/ now > rl.winStart + WindowMs
  IN [client |-> c, before |-> buckets[c], at |-> now,
      proceed |-> Decide(c).proceed, limit |-> LimitOf(env),
      status |-> IF Decide(c).proceed THEN 200
                 ELSE toErrorResponse(Thrown(429, "RATE_LIMITED")).status,
      winStart |-> IF opens THEN now ELSE rl.winStart,
      winN |-> IF opens THEN 1 ELSE rl.winN + 1]

\* What the arrival of a request for `route` from client c leaves behind.
\* /health is registered outside '/api/*' and answers at once; an /api/*
\* request runs the rate limiter first.
received(r, route, c) ==
  [rq |-> [rq EXCEPT ![r] =
            [NoInput EXCEPT !.route = route, !.client = c,
               !.at = IF route = "health" THEN 0 ELSE now,
               !.rlimit = IF route = "health" THEN "skipped"
                          ELSE IF Decide(c).proceed THEN "passed" ELSE "rejected"]],
   pc |-> [pc EXCEPT ![r] = IF route = "health" THEN "done"
                            ELSE afterRateLimit(Decide(c).proceed)],
   resp |-> [resp EXCEPT ![r] =
              IF route = "health" THEN jsonOk
              ELSE IF Decide(c).proceed THEN @
              ELSE toErrorResponse(Thrown(429, "RATE_LIMITED"))],
   buckets |-> IF route = "health" THEN buckets
               ELSE [buckets EXCEPT ![c] = Decide(c).bucket]]

\* GET /health or GET /api/data arrives.
Arrive(r) ==
  /\ pc[r] = "idle"
  /\ \E route \in {"health", "data"}, c \in Clients :
       /\ rq' = received(r, route, c).rq
       /\ pc' = received(r, route, c).pc
       /\ resp' = received(r, route, c).resp
       /\ buckets' = received(r, route, c).buckets
  /\ UNCHANGED <<callVars, env, now, rl, cacheVars, reads, invoked, sched, produced>>

\* GET /api/city-profile arrives.
ArriveProfile(r) ==
  /\ pc[r] = "idle"
  /\ \E c \in Clients :
       /\ rq' = received(r, "city-profile", c).rq
       /\ pc' = received(r, "city-profile", c).pc
       /\ resp' = received(r, "city-profile", c).resp
       /\ buckets' = received(r, "city-profile", c).buckets
  /\ UNCHANGED <<callVars, env, now, rl, cacheVars, reads, invoked, sched, produced>>

\* ------------------------------------------------------------- data route
\* Two entries of INDICATORS (population, gdp).
Catalog ==
  {[slug |-> "population", supported |-> TRUE, yearMin |-> 2022,
    yearMax |-> 2022, defaultYear |-> 2022],
   [slug |-> "gdp", supported |-> TRUE, yearMin |-> 2002,
    yearMax |-> 2023, defaultYear |-> 2023]}
\* IndicatorDefinition.supported is a boolean the handler checks; every
\* entry of the released INDICATORS has it true.  A catalogue extended with
\* an entry that is recognised but not wired yet:
CatalogOf(e) ==
  LET PlannedEntry == [slug |-> "planned", supported |-> FALSE, yearMin |-> 2022,
                       yearMax |-> 2022, defaultYear |-> 2022]
  IN IF e.catalog = "extended" THEN Catalog \cup {PlannedEntry} ELSE Catalog

NoError == [api |-> FALSE, status |-> 200, code |-> "ok"]

\* Variant: the supported flag is not looked at.
dataRouteCheckNoSupportGate(def, requestedYear) ==
  LET effectiveYear == IF requestedYear = Unset THEN def.defaultYear
                       ELSE requestedYear.v
  IN IF effectiveYear < def.yearMin \/ effectiveYear > def.yearMax
     THEN Thrown(400, "UNSUPPORTED_YEAR")
     ELSE NoError
\* Variant: the year is not compared with the entry's range.
dataRouteCheckNoYearGate(def, requestedYear) ==
  IF ~def.supported THEN Thrown(501, "INDICATOR_NOT_IMPLEMENTED") ELSE NoError
\* The checks of the handler before it calls cachedJson: the error thrown,
\* or NoError.
dataRouteCheck(def, requestedYear) ==
  LET effectiveYear == IF requestedYear = Unset THEN def.defaultYear
                       ELSE requestedYear.v
  IN IF ~def.supported THEN Thrown(501, "INDICATOR_NOT_IMPLEMENTED")
     ELSE IF effectiveYear < def.yearMin \/ effectiveYear > def.yearMax
          THEN Thrown(400, "UNSUPPORTED_YEAR")
          ELSE NoError

\* zValidator and the handler up to the first await of cachedJson: the
\* query is checked and the cache key computed.  The city-profile handler
\* has no check of its own after the validator.
Route(r) ==
  /\ pc[r] = "route"
  /\ \E def \in CatalogOf(env), year \in {Unset, Str(2001), Str(2022)},
        key \in Keys :
       LET chk == IF rq[r].route = "data" THEN dataRouteCheck(def, year) ELSE NoError
           entry == IF rq[r].route # "data" THEN "none"
                    ELSE IF def.supported THEN "supported" ELSE "unsupported"
           asked == IF year = Unset THEN def.defaultYear ELSE year.v
           range == IF rq[r].route # "data" THEN "none"
                    ELSE IF asked \in def.yearMin..def.yearMax THEN "inside"
                    ELSE "outside"
       IN IF chk = NoError
          THEN /\ rq' = [rq EXCEPT ![r].key = key, ![r].entry = entry,
                                    ![r].year = range,
                                    ![r].after = {q \in Reqs : pc[q] = "done"}]
               /\ pc' = [pc EXCEPT ![r] = "edge"]
               /\ UNCHANGED resp
          ELSE /\ resp' = [resp EXCEPT ![r] = toErrorResponse(chk)]
               /\ pc' = [pc EXCEPT ![r] = "done"]
               /\ rq' = [rq EXCEPT ![r].entry = entry, ![r].year = range]
  /\ UNCHANGED <<callVars, env, now, buckets, rl, cacheVars, reads, invoked, sched, produced>>

\* ------------------------------------------------------------- cache tiers
\* ttlSeconds ?? Number(c.env.CACHE_TTL_SECONDS ?? '600')
effectiveTtl(ttlSeconds) == IF ttlSeconds = Unset THEN DefaultTtl ELSE ttlSeconds.v

\* Cache API match / KV get: the platform serves an entry until its
\* max-age / expirationTtl has run out.
nativeGet(store, key, t) ==
  IF store[key] # NoEntry /\ store[key].expiresAt > t
  THEN store[key].payload ELSE NoPayload

\* Variant: the row is returned whatever its expires_at.
readFromPostgresNoExpiry(rows, key, t) ==
  IF rows[key] = NoEntry THEN NoPayload ELSE rows[key].payload
\* readFromPostgres once the SELECT has answered: no row, or a row whose
\* expires_at is not after Date.now(), is null.
readFromPostgres(rows, key, t) ==
  IF rows[key] = NoEntry THEN NoPayload
  ELSE IF rows[key].expiresAt <= t THEN NoPayload
       ELSE rows[key].payload

\* The cache_requests table of the initial migration: the columns declared
\* NOT NULL without a DEFAULT, and the columns the INSERT of writeToPostgres
\* names.  Postgres checks NOT NULL before it looks for the ON CONFLICT row.
insertAccepted ==
  LET NotNullNoDefault == {"id", "key", "params", "payload", "expires_at"}
      InsertColumns == {"key", "params", "payload", "expires_at", "updated_at"}
  IN NotNullNoDefault \subseteq InsertColumns

\* A JSONB column stores the value, not the text: key order is normalised.
toJsonb(payload) == [payload EXCEPT !.form = "jsonb"]

\* The promises cachedJson hands to executionCtx.waitUntil.
Task(tier, key, payload, ttl, r) ==
  [tier |-> tier, key |-> key, payload |-> payload, ttl |-> ttl, at |-> now,
   by |-> r]
\* Variant: the edge write carries another payload than the one returned.
edgePutStale(key, payload, ttl, r) ==
  IF env.edge THEN {Task("edge", key, SeedEntry("edge").payload, ttl, r)} ELSE {}
edgePut(key, payload, ttl, r) ==
  IF env.edge THEN {Task("edge", key, payload, ttl, r)} ELSE {}
kvPut(key, payload, ttl, r) ==
  IF env.kv THEN {Task("kv", key, payload, ttl, r)} ELSE {}
\* Variant: the relational write is attempted without a configured database.
writeToPostgresUnguarded(key, payload, ttl, r) == {Task("pg", key, payload, ttl, r)}
\* writeToPostgres returns at once when getSql(env) is null.
writeToPostgres(key, payload, ttl, r) ==
  IF env.db THEN {Task("pg", key, payload, ttl, r)} ELSE {}

\* Variants: a relational hit refills only the edge cache; a full miss
\* skips the key-value store.
backfillOnHitEdgeOnly(tier, key, payload, ttl, r) ==
  IF tier = "kv" \/ tier = "pg" THEN edgePut(key, payload, ttl, r) ELSE {}
writesOnMissNoKv(key, payload, ttl, r) ==
  edgePut(key, payload, ttl, r) \cup writeToPostgres(key, payload, ttl, r)

\* Tiers written back on a hit in `tier`, and on a full miss.
backfillOnHit(tier, key, payload, ttl, r) ==
  IF tier = "kv" THEN edgePut(key, payload, ttl, r)
  ELSE IF tier = "pg" THEN edgePut(key, payload, ttl, r) \cup kvPut(key, payload, ttl, r)
  ELSE {}
writesOnMiss(key, payload, ttl, r) ==
  edgePut(key, payload, ttl, r) \cup kvPut(key, payload, ttl, r)
    \cup writeToPostgres(key, payload, ttl, r)

\* Variant: the key-value store is passed over after an edge miss.
afterMissSkipKv(tier) == IF tier = "edge" THEN "pg" ELSE "producer"

\* Variant: the producer runs whatever the relational probe found.
producerCallsAlways(postgresHit) == 1

\* The tier probed after a miss in `tier`; after the relational tier the
\* producer runs.
afterMiss(tier) ==
  IF tier = "edge" THEN "kv" ELSE IF tier = "kv" THEN "pg" ELSE "producer"

\* Producer invocations that follow the relational probe: none on a hit.
producerCalls(postgresHit) == IF postgresHit # NoPayload THEN 0 ELSE 1

Ttl == effectiveTtl(Str(TtlSeconds))
Read(tier, out) == [tier |-> tier, out |-> out]

Hit(r, tier, payload) ==
  /\ reads' = [reads EXCEPT ![r] = Append(@, Read(tier, "hit"))]
  /\ resp' = [resp EXCEPT ![r] = jsonResponse(payload, "HIT", tier)]
  /\ sched' = [sched EXCEPT ![r] = @ \cup backfillOnHit(tier, rq[r].key, payload, Ttl, r)]
  /\ bg' = bg \cup backfillOnHit(tier, rq[r].key, payload, Ttl, r)
  /\ pc' = [pc EXCEPT ![r] = "done"]

\* An uncaught rejection inside cachedJson reaches app.onError.
Fail(r, tier) ==
  /\ reads' = [reads EXCEPT ![r] = Append(@, Read(tier, "fail"))]
  /\ resp' = [resp EXCEPT ![r] = toErrorResponse(Rejected)]
  /\ pc' = [pc EXCEPT ![r] = "done"]
  /\ UNCHANGED <<sched, bg>>

\* await getEdgeCache(); await edgeCache.match(request)
EdgeProbe(r) ==
  /\ pc[r] = "edge"
  /\ IF ~env.edge
     THEN /\ pc' = [pc EXCEPT ![r] = afterMiss("edge")]
          /\ UNCHANGED <<reads, resp, sched, bg>>
     ELSE \E ok \in BOOLEAN :
            LET edgeHit == nativeGet(edge, rq[r].key, now)
            IN IF ~ok THEN Fail(r, "edge")
               ELSE IF edgeHit # NoPayload THEN Hit(r, "edge", edgeHit)
               ELSE /\ reads' = [reads EXCEPT ![r] = Append(@, Read("edge", "miss"))]
                    /\ pc' = [pc EXCEPT ![r] = afterMiss("edge")]
                    /\ UNCHANGED <<resp, sched, bg>>
  /\ UNCHANGED <<callVars, env, now, buckets, rl, edge, kv, pg, rq, produced, invoked>>

\* await c.env.CACHE_KV.get(key, 'json')
KvProbe(r) ==
  /\ pc[r] = "kv"
  /\ IF ~env.kv
     THEN /\ pc' = [pc EXCEPT ![r] = afterMiss("kv")]
          /\ UNCHANGED <<reads, resp, sched, bg>>
     ELSE \E ok \in BOOLEAN :
            LET kvHit == nativeGet(kv, rq[r].key, now)
            IN IF ~ok THEN Fail(r, "kv")
               ELSE IF kvHit # NoPayload THEN Hit(r, "kv", kvHit)
               ELSE /\ reads' = [reads EXCEPT ![r] = Append(@, Read("kv", "miss"))]
                    /\ pc' = [pc EXCEPT ![r] = afterMiss("kv")]
                    /\ UNCHANGED <<resp, sched, bg>>
  /\ UNCHANGED <<callVars, env, now, buckets, rl, edge, kv, pg, rq, produced, invoked>>

\* await readFromPostgres(c.env, key); on null the producer is called in
\* the same turn of the event loop.
PgProbe(r) ==
  /\ pc[r] = "pg"
  /\ \E ok \in BOOLEAN :
       LET postgresHit == IF env.db /\ ok THEN readFromPostgres(pg, rq[r].key, now)
                          ELSE NoPayload
           log == IF ~env.db THEN <<>>
                  ELSE IF ~ok THEN <<Read("pg", "fail")>>
                  ELSE <<Read("pg", "miss")>>
       IN /\ invoked' = [invoked EXCEPT ![r] = @ + producerCalls(postgresHit)]
          /\ IF postgresHit # NoPayload THEN Hit(r, "pg", postgresHit)
             ELSE /\ reads' = [reads EXCEPT ![r] = @ \o log]
                  /\ pc' = [pc EXCEPT ![r] = afterMiss("pg")]
                  /\ UNCHANGED <<resp, sched, bg>>
  /\ UNCHANGED <<callVars, env, now, buckets, rl, edge, kv, pg, rq, produced>>

\* What fetch(url) can do: resolve with a status, or reject.
NetworkFailure == [network |-> TRUE]
UpstreamAnswers == {Str(200), Str(404), Str(503), NetworkFailure}
FailedAnswers == {a \in UpstreamAnswers : a = NetworkFailure \/ a.v < 200 \/ a.v > 299}

\* Variant: a failed request is sent a second time before giving up.
fetchJsonRetrying(answer) ==
  [attempts |-> IF answer \in FailedAnswers THEN 2 ELSE 1,
   error |-> IF answer = NetworkFailure THEN Rejected
             ELSE IF answer.v >= 200 /\ answer.v <= 299 THEN NoError
             ELSE Thrown(answer.v, "IBGE_REQUEST_FAILED")]
\* fetchJson: one fetch; a rejection of fetch passes through, a response
\* that is not ok throws ApiError(response.status, 'IBGE_REQUEST_FAILED').
fetchJson(answer) ==
  [attempts |-> 1,
   error |-> IF answer = NetworkFailure THEN Rejected
             ELSE IF answer.v >= 200 /\ answer.v <= 299 THEN NoError
             ELSE Thrown(answer.v, "IBGE_REQUEST_FAILED")]

\* safeFirstPoint: whatever the producer throws becomes null.
safeFirstPoint(error) == NoError

\* What reaches cachedJson from the producer of a route when the upstream
\* call it makes ends with `error`: fetchCityProfile wraps every call in
\* safeFirstPoint, the data route awaits fetchIndicatorData directly.
producerOutcome(route, error) ==
  IF route = "city-profile" THEN safeFirstPoint(error) ELSE error

\* Variant: the handler awaits every write it started.
awaitedWritesAll(writes) == writes
\* The writes cachedJson awaits before `return jsonResponse(payload, 'MISS')`:
\* each promise is passed to waitUntil and none is awaited.
awaitedWrites(writes) == {}

\* The producer resolves: the three writes are handed to waitUntil and the
\* response is returned without awaiting them.
ProducerReturn(r) ==
  /\ pc[r] = "producer"
  /\ \E answer \in UpstreamAnswers :
       LET call == fetchJson(answer)
           payload == [id |-> produced + 1, form |-> "object"]
           writes == writesOnMiss(rq[r].key, payload, Ttl, r)
       IN /\ producerOutcome(rq[r].route, call.error) = NoError
          /\ rq' = [rq EXCEPT ![r].upstream = IF call.error = NoError THEN "ok"
                                              ELSE "failed",
                               ![r].fetches = call.attempts]
          /\ produced' = produced + 1
          /\ sched' = [sched EXCEPT ![r] = @ \cup writes]
          /\ bg' = bg \cup writes
          /\ resp' = [resp EXCEPT ![r] = jsonResponse(payload, "MISS", "producer")]
          /\ pc' = [pc EXCEPT ![r] = IF awaitedWrites(writes) = {} THEN "done"
                                     ELSE "writes"]
  /\ UNCHANGED <<callVars, env, now, buckets, rl, edge, kv, pg, reads, invoked>>

\* Variant: the error response is stored in the edge cache like a payload.
writesOnThrowCachingError(key, error, ttl, r) ==
  edgePut(key, [id |-> error.status, form |-> "object"], ttl, r)
\* `await producer()` rejects: the statements after it, the three writes,
\* are not reached.
writesOnThrow(key, error, ttl, r) == {}

\* The producer throws what its upstream call threw; the error leaves
\* cachedJson and the handler and reaches app.onError.
ProducerThrow(r) ==
  /\ pc[r] = "producer"
  /\ \E answer \in UpstreamAnswers :
       LET call == fetchJson(answer)
           error == producerOutcome(rq[r].route, call.error)
           writes == writesOnThrow(rq[r].key, error, Ttl, r)
       IN /\ error # NoError
          /\ rq' = [rq EXCEPT ![r].upstream = "failed", ![r].fetches = call.attempts]
          /\ resp' = [resp EXCEPT ![r] = toErrorResponse(error)]
          /\ sched' = [sched EXCEPT ![r] = @ \cup writes]
          /\ bg' = bg \cup writes
  /\ pc' = [pc EXCEPT ![r] = "done"]
  /\ UNCHANGED <<callVars, env, now, buckets, rl, edge, kv, pg, reads, invoked, produced>>

\* A write handed to waitUntil reaches its store.  A write that fails (the
\* rejection is only logged) or is abandoned is one that stays in bg for
\* ever: nothing else can tell the two apart.  The INSERT of
\* writeToPostgres is answered by the table's constraints; refused, it
\* throws, the catch logs it and the promise resolves with no row written.
BgSettle(t) ==
  /\ t \in bg
  /\ bg' = bg \ {t}
  /\ LET fresh == [payload |-> t.payload, expiresAt |-> now + t.ttl * 1000]
         row == [payload |-> toJsonb(t.payload), expiresAt |-> t.at + t.ttl * 1000]
     IN /\ edge' = IF t.tier = "edge" THEN [edge EXCEPT ![t.key] = fresh] ELSE edge
        /\ kv' = IF t.tier = "kv" THEN [kv EXCEPT ![t.key] = fresh] ELSE kv
        /\ pg' = IF t.tier = "pg" /\ insertAccepted
                 THEN [pg EXCEPT ![t.key] = row] ELSE pg
  /\ UNCHANGED <<callVars, env, now, buckets, rl, reqVars>>

\* The Cache API may drop an entry at any time.
EdgeEvict(k) ==
  /\ env.edge
  /\ edge[k] # NoEntry
  /\ edge' = [edge EXCEPT ![k] = NoEntry]
  /\ UNCHANGED <<callVars, env, now, buckets, rl, kv, pg, bg, reqVars>>

\* Time passes.
Tick ==
  /\ \E t \in {0, WindowMs + 1} : t > now /\ now' = t
  /\ UNCHANGED <<callVars, env, buckets, rl, cacheVars, reqVars>>

Next ==
  \/ \E r \in Reqs : Arrive(r)
  \/ \E r \in Reqs : Route(r)
  \/ \E r \in Reqs : EdgeProbe(r)
  \/ \E r \in Reqs : KvProbe(r)
  \/ \E r \in Reqs : PgProbe(r)
  \/ \E r \in Reqs : ProducerReturn(r)
  \/ \E r \in Reqs : ProducerThrow(r)
  \/ \E t \in bg : BgSettle(t)
  \/ \E k \in Keys : EdgeEvict(k)
  \/ Tick

Spec == Init /\ [][Next]_vars

\* ------------------------------------------------------- all cached routes
\* SpecRoutes: the worker with the edge cache (and perhaps the key-value
\* store) also receives /api/city-profile requests, and its catalogue holds
\* an entry that is not supported.
InitRoutes ==
  /\ env \in [edge : {TRUE}, kv : BOOLEAN, db : {FALSE},
              limit : {Str(MaxLimit)}, catalog : {"extended"}]
  /\ now = 0
  /\ buckets = [c \in Clients |-> NoBucket]
  /\ edge = EmptyStore /\ kv = EmptyStore /\ pg = EmptyStore
  /\ bg = {}
  /\ InitRequests
  /\ rl = NoDecision
  /\ arg = NoCall /\ ret = NoCall

NextRoutes ==
  \/ \E r \in Reqs : Arrive(r)
  \/ \E r \in Reqs : ArriveProfile(r)
  \/ \E r \in Reqs : Route(r)
  \/ \E r \in Reqs : EdgeProbe(r)
  \/ \E r \in Reqs : KvProbe(r)
  \/ \E r \in Reqs : PgProbe(r)
  \/ \E r \in Reqs : ProducerReturn(r)
  \/ \E r \in Reqs : ProducerThrow(r)
  \/ \E t \in bg : BgSettle(t)
  \/ \E k \in Keys : EdgeEvict(k)
  \/ Tick

SpecRoutes == InitRoutes /\ [][NextRoutes]_vars

\* ------------------------------------------------- the rate limiter alone
\* SpecRate: one worker instance with the default limit (or a small
\* configured one) receiving /api/* requests whose handler touches no cache
\* tier (an unknown /api path, a query the validator refuses); the clock
\* visits every instant of Instants.
InitRate ==
  /\ env \in [edge : {FALSE}, kv : {FALSE}, db : {FALSE},
              limit : {Unset} \cup {Str(n) : n \in 0..MaxLimit},
              catalog : {"released"}]
  /\ now = 0
  /\ buckets = [c \in Clients |-> NoBucket]
  /\ edge = EmptyStore /\ kv = EmptyStore /\ pg = EmptyStore
  /\ bg = {}
  /\ InitRequests
  /\ rl = NoDecision
  /\ arg = NoCall /\ ret = NoCall

ApiRequest(c) ==
  /\ \/ rl.client = "none"
     \/ now > rl.winStart + WindowMs
     \/ rl.winN < LimitOf(env) + MaxOver
  /\ buckets' = [buckets EXCEPT ![c] = Decide(c).bucket]
  /\ rl' = Decision(c)
  /\ UNCHANGED <<callVars, env, now, cacheVars, reqVars>>

TickFine ==
  /\ \E t \in Instants : t > now /\ now' = t
  /\ UNCHANGED <<callVars, env, buckets, rl, cacheVars, reqVars>>

NextRate ==
  \/ \E c \in Clients : ApiRequest(c)
  \/ TickFine

SpecRate == InitRate /\ [][NextRate]_vars

\* ------------------------------------------------- functions studied alone
\* The state of a specification that studies one function: no request in
\* flight, no tier, the clock at 0.  Only arg and ret move.
Quiescent ==
  /\ env = [edge |-> FALSE, kv |-> FALSE, db |-> FALSE, limit |-> Unset,
            catalog |-> "released"]
  /\ now = 0
  /\ buckets = [c \in Clients |-> NoBucket]
  /\ edge = EmptyStore /\ kv = EmptyStore /\ pg = EmptyStore
  /\ bg = {}
  /\ InitRequests
  /\ rl = NoDecision
restVars == <<env, now, buckets, rl, cacheVars, reqVars>>

\* ------------------------------------------------------------ cacheKeyFrom
\* A string is the sequence of its UTF-16 code units.
CodeUnit ==
  [colon |-> 58, pipe |-> 124, comma |-> 44, minus |-> 45, dot |-> 46,
   zero |-> 48, nine |-> 57, space |-> 32, x |-> 88]
\* The string literals of the source and of the inputs.
Text ==
  [data |-> <<100, 97, 116, 97>>,
   territories |-> <<116, 101, 114, 114, 105, 116, 111, 114, 105, 101, 115>>,
   code |-> <<99, 111, 100, 101>>, level |-> <<108, 101, 118, 101, 108>>,
   limit |-> <<108, 105, 109, 105, 116>>, year |-> <<121, 101, 97, 114>>,
   UF |-> <<85, 70>>, true |-> <<116, 114, 117, 101>>,
   false |-> <<102, 97, 108, 115, 101>>,
   dash |-> <<45>>, ellipsis |-> <<46, 46, 46>>, x |-> <<88>>, zero |-> <<48>>,
   oneComma5 |-> <<49, 44, 53>>,
   anonymous |-> <<97, 110, 111, 110, 121, 109, 111, 117, 115>>,
   search |-> <<115, 101, 97, 114, 99, 104>>,
   parentCode |-> <<112, 97, 114, 101, 110, 116, 67, 111, 100, 101>>]

\* The values a parameter can hold: string | number | boolean | undefined.
\* A string is [text |-> s], a number [num |-> n], a boolean [bool |-> b].
TextValue(s) == [text |-> s]

\* String(n) of a natural number: its decimal digits.
RECURSIVE Decimal(_)
Decimal(n) == IF n < 10 THEN <<48 + n>> ELSE Decimal(n \div 10) \o <<48 + (n % 10)>>

\* String(value ?? '')
stringOf(value) ==
  IF value = Unset THEN <<>>
  ELSE IF "text" \in DOMAIN value THEN value.text
  ELSE IF "num" \in DOMAIN value THEN Decimal(value.num)
  ELSE IF value.bool THEN Text.true ELSE Text.false

\* The order of the default Array.prototype.sort: code unit by code unit;
\* a proper prefix comes first.
RECURSIVE codeUnitLess(_, _)
codeUnitLess(a, b) ==
  IF b = <<>> THEN FALSE
  ELSE IF a = <<>> THEN TRUE
  ELSE IF Head(a) # Head(b) THEN Head(a) < Head(b)
  ELSE codeUnitLess(Tail(a), Tail(b))

\* A parameter bag is the sequence of its (key, value) pairs in insertion
\* order; keys are distinct and none is an array index, so Object.keys
\* lists them in that order.
objectKeys(params) == [i \in 1..Len(params) |-> params[i].key]

\* Variant: the keys are left in insertion order.
sortKeysInsertionOrder(keys) == keys
\* Object.keys(params).sort()
sortKeys(keys) == SortSeq(keys, codeUnitLess)

\* parts.join(sep)
RECURSIVE join(_, _)
join(parts, sep) ==
  IF parts = <<>> THEN <<>>
  ELSE IF Len(parts) = 1 THEN parts[1]
  ELSE parts[1] \o sep \o join(Tail(parts), sep)

cacheKeyFrom(namespace, params) ==
  LET keys == sortKeys(objectKeys(params))
      valueAt(bag, key) == bag[CHOOSE i \in 1..Len(bag) : bag[i].key = key].value
      sorted == join([i \in 1..Len(keys) |->
                        keys[i] \o <<CodeUnit.colon>> \o stringOf(valueAt(params, keys[i]))],
                     <<CodeUnit.pipe>>)
  IN namespace \o <<CodeUnit.colon, CodeUnit.colon>> \o sorted

\* SpecKey: cacheKeyFrom is called with a bag of up to MaxParams of the
\* parameters the routes pass, and again with the same parameters inserted
\* in another order.
Injective(f) == \A i, j \in DOMAIN f : f[i] = f[j] => i = j
ParamBags ==
  LET ParamNames == {Text.code, Text.level, Text.limit, Text.year}
      ParamValues == {Unset, TextValue(Text.UF), [num |-> 2022], [bool |-> TRUE]}
  IN UNION {{p \in [1..n -> [key : ParamNames, value : ParamValues]] :
               Injective(objectKeys(p))} : n \in 0..MaxParams}
\* The same pairs in every insertion order.
Reorderings(params) ==
  {[i \in 1..Len(params) |-> params[f[i]]] :
     f \in {g \in [1..Len(params) -> 1..Len(params)] : Injective(g)}}

InitKey ==
  /\ Quiescent
  /\ arg \in [fn : {"cacheKeyFrom"}, namespace : {Text.data, Text.territories},
              params : ParamBags]
  /\ ret = NoCall

CacheKeyCall ==
  /\ ret = NoCall
  /\ ret' = [fn |-> "cacheKeyFrom", calls |-> 1,
             key |-> cacheKeyFrom(arg.namespace, arg.params)]
  /\ UNCHANGED <<arg, restVars>>

CacheKeyCallReordered ==
  /\ ret # NoCall /\ ret.calls = 1
  /\ \E q \in Reorderings(arg.params) \ {arg.params} :
       /\ arg' = [arg EXCEPT !.params = q]
       /\ ret' = [fn |-> "cacheKeyFrom", calls |-> 2,
                  key |-> cacheKeyFrom(arg.namespace, q)]
  /\ UNCHANGED restVars

NextKey == CacheKeyCall \/ CacheKeyCallReordered

SpecKey == InitKey /\ [][NextKey]_vars

\* SpecCollide: the territories route calls cachedJson with
\* { level, parentCode, search }; parentCode and search are strings of the
\* client's choosing (or absent), here '1', '2' and those joined by
\* '|search:'.  A second request differs in parentCode or in search.
TerritoryBags ==
  LET Plain == {Decimal(1), Decimal(2)}
      Joined == {a \o <<CodeUnit.pipe>> \o Text.search \o <<CodeUnit.colon>> \o b :
                   a \in Plain, b \in Plain}
      Chosen == {Unset} \cup {TextValue(v) : v \in Plain \cup Joined}
  IN {<<[key |-> Text.level, value |-> TextValue(Text.UF)],
        [key |-> Text.parentCode, value |-> parentCode],
        [key |-> Text.search, value |-> search]>> :
        parentCode \in Chosen, search \in Chosen}

InitCollide ==
  /\ Quiescent
  /\ arg \in [fn : {"cacheKeyFrom"}, namespace : {Text.territories},
              params : TerritoryBags]
  /\ ret = NoCall

CacheKeyCallOther ==
  /\ ret # NoCall /\ ret.calls = 1
  /\ \E q \in TerritoryBags \ {arg.params} :
       /\ arg' = [arg EXCEPT !.params = q]
       /\ ret' = [fn |-> "cacheKeyFrom", calls |-> 2,
                  key |-> cacheKeyFrom(arg.namespace, q),
                  first |-> ret.key, firstParams |-> arg.params]
  /\ UNCHANGED restVars

NextCollide == CacheKeyCall \/ CacheKeyCallOther

SpecCollide == InitCollide /\ [][NextCollide]_vars

\* ---------------------------------------------------------- toNumericValue

\* A number is NaN, or a finite decimal: units / 10^scale, with no trailing
\* zero counted in scale, so that equal numbers are equal records.
NaN == [nan |-> TRUE]
RECURSIVE Finite(_, _)
Finite(units, scale) ==
  IF scale > 0 /\ units % 10 = 0 THEN Finite(units \div 10, scale - 1)
  ELSE [units |-> units, scale |-> scale]
isFinite(x) == x # NaN

isDigit(c) == CodeUnit.zero <= c /\ c <= CodeUnit.nine
includes(text, c) == \E i \in 1..Len(text) : text[i] = c
\* 0 when c does not occur (lastIndexOf gives -1 there, and 0-based places)
lastIndexOf(text, c) ==
  IF includes(text, c) THEN CHOOSE i \in 1..Len(text) :
       text[i] = c /\ \A j \in (i + 1)..Len(text) : text[j] # c
  ELSE 0
\* text.replace(/c/g, '')
removeAll(text, c) == SelectSeq(text, LAMBDA x : x # c)
\* text.replace(c, d): the first occurrence only
replaceFirst(text, c, d) ==
  IF ~includes(text, c) THEN text
  ELSE LET i == CHOOSE k \in 1..Len(text) :
                  text[k] = c /\ \A j \in 1..(k - 1) : text[j] # c
       IN [text EXCEPT ![i] = d]
RECURSIVE trim(_)
trim(text) ==
  IF text = <<>> THEN text
  ELSE IF Head(text) = CodeUnit.space THEN trim(Tail(text))
  ELSE IF text[Len(text)] = CodeUnit.space THEN trim(SubSeq(text, 1, Len(text) - 1))
  ELSE text

RECURSIVE digitsValue(_)
digitsValue(ds) ==
  IF ds = <<>> THEN 0
  ELSE 10 * digitsValue(SubSeq(ds, 1, Len(ds) - 1)) + (ds[Len(ds)] - CodeUnit.zero)

\* Number(text) for a text of digits, '.' and '-': the empty string is 0;
\* otherwise an optional sign, then digits with at most one '.', at least
\* one digit; anything else is NaN.
toNumber(text) ==
  IF text = <<>> THEN Finite(0, 0)
  ELSE LET neg == Head(text) = CodeUnit.minus
           body == IF neg THEN Tail(text) ELSE text
           dots == Len(SelectSeq(body, LAMBDA x : x = CodeUnit.dot))
           ds == removeAll(body, CodeUnit.dot)
           scale == IF dots = 0 THEN 0 ELSE Len(body) - lastIndexOf(body, CodeUnit.dot)
       IN IF includes(body, CodeUnit.minus) \/ dots > 1 \/ ds = <<>> THEN NaN
          ELSE Finite((IF neg THEN -1 ELSE 1) * digitsValue(ds), scale)

\* The separator heuristic of toNumericValue.
normalizeSeparators(text) ==
  IF includes(text, CodeUnit.comma) /\ includes(text, CodeUnit.dot)
  THEN IF lastIndexOf(text, CodeUnit.comma) > lastIndexOf(text, CodeUnit.dot)
       THEN replaceFirst(removeAll(text, CodeUnit.dot), CodeUnit.comma, CodeUnit.dot)
       ELSE removeAll(text, CodeUnit.comma)
  ELSE IF includes(text, CodeUnit.comma)
       THEN replaceFirst(removeAll(text, CodeUnit.dot), CodeUnit.comma, CodeUnit.dot)
       ELSE removeAll(text, CodeUnit.comma)

toNumericValue(raw) ==
  LET text == trim(raw)
  IN IF text = <<>> THEN NaN
     ELSE toNumber(SelectSeq(normalizeSeparators(text),
                             LAMBDA x : isDigit(x) \/ x = CodeUnit.dot \/ x = CodeUnit.minus))

\* SpecParse: toNumericValue is called with a decimal numeral written under
\* one of the two separator conventions, grouped by thousands or not, and
\* again with another writing of the same numeral.
Numerals ==
  [int : {SubSeq(Decimal(123456789), 1, n) : n \in 1..MaxDigits},
   frac : {SubSeq(Decimal(56), 1, n) : n \in 0..2}]
RECURSIVE grouped(_, _)
grouped(ds, sep) ==
  IF Len(ds) <= 3 THEN ds
  ELSE grouped(SubSeq(ds, 1, Len(ds) - 3), sep) \o <<sep>>
         \o SubSeq(ds, Len(ds) - 2, Len(ds))
written(n, conv, groups) ==
  (IF groups THEN grouped(n.int, conv.thousands) ELSE n.int)
    \o (IF n.frac = <<>> THEN <<>> ELSE <<conv.decimal>> \o n.frac)
Writings(n) ==
  LET Conventions == {[decimal |-> CodeUnit.comma, thousands |-> CodeUnit.dot],
                      [decimal |-> CodeUnit.dot, thousands |-> CodeUnit.comma]}
  IN {written(n, conv, g) : conv \in Conventions, g \in BOOLEAN}
denoted(n) == Finite(digitsValue(n.int \o n.frac), Len(n.frac))

InitParse ==
  /\ Quiescent
  /\ arg \in UNION {[fn : {"toNumericValue"}, raw : Writings(n), numeral : {n}] :
                      n \in Numerals}
  /\ ret = NoCall

ParseNumeral ==
  /\ ret = NoCall
  /\ ret' = [fn |-> "toNumericValue", calls |-> 1,
             value |-> toNumericValue(arg.raw)]
  /\ UNCHANGED <<arg, restVars>>

ParseOtherWriting ==
  /\ ret # NoCall /\ ret.calls = 1
  /\ \E w \in Writings(arg.numeral) \ {arg.raw} :
       /\ arg' = [arg EXCEPT !.raw = w]
       /\ ret' = [fn |-> "toNumericValue", calls |-> 2, value |-> toNumericValue(w)]
  /\ UNCHANGED restVars

NextParse == ParseNumeral \/ ParseOtherWriting

SpecParse == InitParse /\ [][NextParse]_vars

\* ----------------------------------------------------- fetchAggregateSeries
\* The upstream payload once fetchJson has returned it: rows of
\* (localidade.id, serie), serie a map from period to raw text.  Periods
\* are integer-like keys, so Object.values lists them in ascending order.
YearAsked == 2022

\* row.serie[String(year)] ?? Object.values(row.serie)[0] ?? '0'
rawValueOf(serie, year) ==
  LET first == CHOOSE y \in DOMAIN serie : \A z \in DOMAIN serie : y <= z
  IN IF year \in DOMAIN serie THEN serie[year]
     ELSE IF DOMAIN serie # {} THEN serie[first]
     ELSE Text.zero

startsWith(text, prefix) ==
  Len(prefix) <= Len(text) /\ SubSeq(text, 1, Len(prefix)) = prefix

Point(code, value) == [code |-> code, value |-> value]
\* rows.map(...).filter(Number.isFinite) and the prefix filter of a
\* municipality request scoped by a UF code.
fetchAggregateSeries(level, year, code, rows) ==
  LET mapped == [i \in 1..Len(rows) |->
                   Point(rows[i].id, toNumericValue(rawValueOf(rows[i].serie, year)))]
      parsed == SelectSeq(mapped, LAMBDA row : isFinite(row.value))
  IN IF level = "MUNICIPIO" /\ code # Unset /\ code.text # <<>> /\ Len(code.text) <= 2
     THEN SelectSeq(parsed, LAMBDA row : startsWith(row.code, code.text))
     ELSE parsed

\* SpecSeries: fetchAggregateSeries receives a payload of up to MaxRows
\* rows whose serie is empty, holds the year asked, or another year only.
PayloadRows ==
  LET YearOther == 2010
      RawValues == {Text.dash, Text.ellipsis, Text.x, Text.zero, Decimal(12),
                    Text.oneComma5}
      serieOf(year, raw) == [y \in {year} |-> raw]
      Series ==
        {[y \in {} |-> <<>>], serieOf(YearOther, Decimal(12)),
         [y \in {YearOther, YearAsked} |->
            IF y = YearAsked THEN Text.x ELSE Decimal(12)]}
          \cup {serieOf(YearAsked, raw) : raw \in RawValues}
      Ids == {Decimal(11), Decimal(1100015), Decimal(1200013)}
  IN UNION {[1..n -> [id : Ids, serie : Series]] : n \in 0..MaxRows}
InitSeries ==
  /\ Quiescent
  /\ arg \in [fn : {"fetchAggregateSeries"}, level : {"UF", "MUNICIPIO"},
              year : {YearAsked}, code : {Unset, TextValue(Decimal(11))},
              rows : PayloadRows]
  /\ ret = NoCall

FetchAggregateSeries ==
  /\ ret = NoCall
  /\ ret' = [fn |-> "fetchAggregateSeries",
             points |-> fetchAggregateSeries(arg.level, arg.year, arg.code, arg.rows)]
  /\ UNCHANGED <<arg, restVars>>

NextSeries == FetchAggregateSeries

SpecSeries == InitSeries /\ [][NextSeries]_vars

\* ------------------------------------------------------ hierarchy expansion
\* Territories of the localities API: three UFs (11 and 12 in region 1, 21
\* in region 2) and their municipalities, whose seven-digit code starts
\* with the UF code.  parentCode is a code (TextValue) or null.
Null == [null |-> TRUE]
Territory(code, parentCode) == [code |-> code, parentCode |-> parentCode]
slice2(code) == SubSeq(code, 1, IF Len(code) < 2 THEN Len(code) ELSE 2)

\* new Map(points.map((item) => [item.code, item])).get(code): the last
\* point of that code, or undefined.
Missing == [missing |-> TRUE]
mapGet(points, code) ==
  IF \E i \in 1..Len(points) : points[i].code = code
  THEN points[CHOOSE i \in 1..Len(points) :
                /\ points[i].code = code
                /\ \A j \in (i + 1)..Len(points) : points[j].code # code]
  ELSE Missing
\* municipio.parentCode ?? municipio.code.slice(0, 2)
ufCodeOf(municipio) ==
  IF municipio.parentCode # Null THEN municipio.parentCode.text
  ELSE slice2(municipio.code)
\* new Map(ufs.map((uf) => [uf.code, uf.parentCode ?? ''])).get(ufCode)
ufToRegiao(ufs, ufCode) ==
  LET uf == mapGet(ufs, ufCode)
  IN IF uf = Missing THEN Missing
     ELSE IF uf.parentCode = Null THEN TextValue(<<>>) ELSE uf.parentCode
\* the coarse row a municipality takes its value from, or Missing
regiaoRowOf(regiaoPoints, ufs, municipio) ==
  LET regiaoCode == ufToRegiao(ufs, ufCodeOf(municipio))
  IN IF regiaoCode = Missing \/ regiaoCode = TextValue(<<>>) THEN Missing
     ELSE mapGet(regiaoPoints, regiaoCode.text)

\* Variant: a municipality without a coarse value is kept with value 0.
expandUfPointsToMunicipiosZeroFill(ufPoints, municipios) ==
  [i \in 1..Len(municipios) |->
     Point(municipios[i].code,
           IF mapGet(ufPoints, ufCodeOf(municipios[i])) = Missing THEN Finite(0, 0)
           ELSE mapGet(ufPoints, ufCodeOf(municipios[i])).value)]
expandUfPointsToMunicipios(ufPoints, municipios) ==
  LET kept == SelectSeq(municipios,
                        LAMBDA m : mapGet(ufPoints, ufCodeOf(m)) # Missing)
  IN [i \in 1..Len(kept) |->
        Point(kept[i].code, mapGet(ufPoints, ufCodeOf(kept[i])).value)]

expandRegiaoPointsToMunicipios(regiaoPoints, ufs, municipios) ==
  LET kept == SelectSeq(municipios,
                        LAMBDA m : regiaoRowOf(regiaoPoints, ufs, m) # Missing)
  IN [i \in 1..Len(kept) |->
        Point(kept[i].code, regiaoRowOf(regiaoPoints, ufs, kept[i]).value)]

\* SpecExpand: a coarse series over UFs (or regions) is expanded over the
\* municipalities getMunicipalityScope returned; each municipality is in
\* scope or not, and carries its UF as parentCode or null.
RECURSIVE Scopes(_)
Scopes(n) ==
  IF n = 0 THEN {<<>>}
  ELSE LET code == IF n <= MaxPerUf THEN Decimal(1100000 + n)
                   ELSE IF n < 2 * MaxPerUf THEN Decimal(1200000 + (n - MaxPerUf))
                   ELSE Decimal(2100000 + 1)
       IN UNION {{rest, Append(rest, Territory(code, Null)),
                  Append(rest, Territory(code, TextValue(slice2(code))))} :
                   rest \in Scopes(n - 1)}
RECURSIVE Coarse(_)
Coarse(options) ==
  IF options = <<>> THEN {<<>>}
  ELSE UNION {{rest, <<Head(options)>> \o rest} : rest \in Coarse(Tail(options))}
InitExpand ==
  LET UfSeries ==
        Coarse(<<Point(Decimal(11), Finite(10, 0)), Point(Decimal(12), Finite(20, 0)),
                 Point(Decimal(21), Finite(0, 0))>>)
      RegiaoSeries ==
        Coarse(<<Point(Decimal(1), Finite(10, 0)), Point(Decimal(2), Finite(20, 0))>>)
      UfCatalogs ==
        {<<Territory(Decimal(11), TextValue(Decimal(1))),
           Territory(Decimal(12), parent),
           Territory(Decimal(21), TextValue(Decimal(2)))>> :
             parent \in {Null, TextValue(Decimal(1))}}
  IN /\ Quiescent
     /\ arg \in [fn : {"expand"}, from : {"UF"}, coarse : UfSeries,
                 ufs : {<<>>}, municipios : Scopes(2 * MaxPerUf)]
             \cup [fn : {"expand"}, from : {"REGIAO"}, coarse : RegiaoSeries,
                   ufs : UfCatalogs, municipios : Scopes(2 * MaxPerUf)]
     /\ ret = NoCall

ExpandUfPoints ==
  /\ ret = NoCall /\ arg.from = "UF"
  /\ ret' = [fn |-> "expand",
             points |-> expandUfPointsToMunicipios(arg.coarse, arg.municipios)]
  /\ UNCHANGED <<arg, restVars>>

ExpandRegiaoPoints ==
  /\ ret = NoCall /\ arg.from = "REGIAO"
  /\ ret' = [fn |-> "expand",
             points |-> expandRegiaoPointsToMunicipios(arg.coarse, arg.ufs,
                                                       arg.municipios)]
  /\ UNCHANGED <<arg, restVars>>

NextExpand == ExpandUfPoints \/ ExpandRegiaoPoints

SpecExpand == InitExpand /\ [][NextExpand]_vars

\* ------------------------------------------------------- buildSyntheticData
\* A component is (weight, direction), the weight in hundredths (0.25 is
\* 25); the payload of a component is the items api.data returned for it,
\* (code, value) with distinct codes and integer values.  Intermediate
\* numbers are exact fractions n / d.
Frac(n, d) == [n |-> n, d |-> d]
itemValues(items) == {items[i].value : i \in 1..Len(items)}
\* values.length ? Math.min(...values) : 0, and the same for max
minOf(items) ==
  IF items = <<>> THEN 0
  ELSE CHOOSE v \in itemValues(items) : \A w \in itemValues(items) : v <= w
maxOf(items) ==
  IF items = <<>> THEN 0
  ELSE CHOOSE v \in itemValues(items) : \A w \in itemValues(items) : v >= w
\* normalizedMap.get(territoryCode) ?? 0.5, the map holding
\* span > 0 ? (item.value - min) / span : 0.5 for every item
baseValueOf(items, code) ==
  LET span == maxOf(items) - minOf(items)
      item == mapGet(items, code)
  IN IF item = Missing THEN Frac(1, 2)
     ELSE IF span > 0 THEN Frac(item.value - minOf(items), span)
     ELSE Frac(1, 2)
\* Variant: the direction of a component is ignored.
directedNoFlip(direction, baseValue) == baseValue
\* entry.component.direction === 'negative' ? 1 - baseValue : baseValue
directed(direction, baseValue) ==
  IF direction = "negative" THEN Frac(baseValue.d - baseValue.n, baseValue.d)
  ELSE baseValue
\* weightedScore after the forEach over the first k components
RECURSIVE weightedScore(_, _, _, _)
weightedScore(components, payloads, code, k) ==
  IF k = 0 THEN Frac(0, 1)
  ELSE LET before == weightedScore(components, payloads, code, k - 1)
           normalized == directed(components[k].direction,
                                  baseValueOf(payloads[k], code))
       IN Frac(before.n * normalized.d + normalized.n * components[k].weight * before.d,
               before.d * normalized.d)
RECURSIVE weightSum(_, _)
weightSum(components, k) ==
  IF k = 0 THEN 0 ELSE weightSum(components, k - 1) + components[k].weight
\* toSafeNumber(weightSum > 0 ? (weightedScore / weightSum) * 100 : 50):
\* the score rounded to two decimals
scoreOf(components, payloads, code) ==
  LET total == weightedScore(components, payloads, code, Len(components))
      weights == weightSum(components, Len(components))
  IN IF weights > 0
     THEN Finite((2 * total.n * 10000 + total.d * weights) \div (2 * total.d * weights), 2)
     ELSE Finite(50, 0)
\* allCodes: the codes of all payloads in order of first appearance
RECURSIVE allCodes(_)
allCodes(payloads) ==
  IF payloads = <<>> THEN <<>>
  ELSE LET before == allCodes(SubSeq(payloads, 1, Len(payloads) - 1))
           last == payloads[Len(payloads)]
           seen(code) == \E i \in 1..Len(before) : before[i] = code
       IN before \o [i \in 1..Len(SelectSeq(last, LAMBDA it : ~seen(it.code))) |->
                       SelectSeq(last, LAMBDA it : ~seen(it.code))[i].code]
\* a value in hundredths, to compare two scores
hundredths(x) == IF x.scale = 0 THEN x.units * 100
                 ELSE IF x.scale = 1 THEN x.units * 10 ELSE x.units
\* [...points].sort((a, b) => b.value - a.value): stable, descending
RECURSIVE sortByValueDesc(_)
sortByValueDesc(points) ==
  IF points = <<>> THEN <<>>
  ELSE LET rest == sortByValueDesc(SubSeq(points, 1, Len(points) - 1))
           last == points[Len(points)]
           ahead == SelectSeq(rest, LAMBDA q : hundredths(q.value) >= hundredths(last.value))
           behind == SelectSeq(rest, LAMBDA q : hundredths(q.value) < hundredths(last.value))
       IN ahead \o <<last>> \o behind
buildSyntheticData(components, payloads) ==
  LET codes == allCodes(payloads)
      points == [i \in 1..Len(codes) |->
                   Point(codes[i], scoreOf(components, payloads, codes[i]))]
  IN [count |-> Len(points), items |-> sortByValueDesc(points)]

\* SpecSynth: a definition of two components, and for each component a
\* payload over three territories, each absent or with a value of
\* 1..MaxValue.
RECURSIVE Payloads(_)
Payloads(n) ==
  IF n = 0 THEN {<<>>}
  ELSE LET code == <<Decimal(11), Decimal(12), Decimal(21)>>[n]
       IN UNION {{rest} \cup {Append(rest, [code |-> code, value |-> v]) :
                                v \in 1..MaxValue} :
                   rest \in Payloads(n - 1)}
InitSynth ==
  LET Components == [weight : {25, 30}, direction : {"positive", "negative"}]
  IN /\ Quiescent
     /\ arg \in [fn : {"buildSyntheticData"},
                 components : Components \X Components,
                 payloads : Payloads(3) \X Payloads(3)]
     /\ ret = NoCall

BuildSyntheticData ==
  /\ ret = NoCall
  /\ ret' = [fn |-> "buildSyntheticData",
             data |-> buildSyntheticData(arg.components, arg.payloads)]
  /\ UNCHANGED <<arg, restVars>>

NextSynth == BuildSyntheticData

SpecSynth == InitSynth /\ [][NextSynth]_vars

\* ------------------------------------------------------------ getClientKey
\* headers.get(name) is the header's value (TextValue) or null.

\* Variant: the x-forwarded-for value is used whole.
getClientKeyWholeHeader(headers) ==
  LET orElse(a, b) == IF a = Null \/ a.text = <<>> THEN b ELSE a
  IN orElse(headers.cf, orElse(headers.xff, TextValue(Text.anonymous))).text
\* headers.get('cf-connecting-ip') ||
\*   headers.get('x-forwarded-for')?.split(',')[0]?.trim() || 'anonymous'
getClientKey(headers) ==
  LET orElse(a, b) == IF a = Null \/ a.text = <<>> THEN b ELSE a
      firstPart(text) ==
        IF includes(text, CodeUnit.comma)
        THEN SubSeq(text, 1, (CHOOSE i \in 1..Len(text) :
                                /\ text[i] = CodeUnit.comma
                                /\ \A j \in 1..(i - 1) : text[j] # CodeUnit.comma) - 1)
        ELSE text
      forwarded == IF headers.xff = Null THEN Null
                   ELSE TextValue(trim(firstPart(headers.xff.text)))
  IN orElse(headers.cf, orElse(forwarded, TextValue(Text.anonymous))).text

\* SpecClient: two requests reach the middleware of a worker whose limit is
\* one request per minute, at the same instant.  cf-connecting-ip is absent,
\* empty or one address; x-forwarded-for is absent or up to MaxHeader
\* characters of '1', ',' and ' ' (a header value arrives without leading
\* or trailing white space).
HeaderSets ==
  LET Chars == {49, CodeUnit.comma, CodeUnit.space}
      Values == UNION {[1..n -> Chars] : n \in 0..MaxHeader}
      Stripped == {v \in Values : v = <<>> \/ (v[1] # CodeUnit.space
                                               /\ v[Len(v)] # CodeUnit.space)}
  IN [cf : {Null, TextValue(<<>>), TextValue(<<50>>)},
      xff : {Null} \cup {TextValue(v) : v \in Stripped}]

InitClient ==
  /\ Quiescent
  /\ arg \in [fn : {"rateLimitMiddleware"}, headers : HeaderSets]
  /\ ret = NoCall

\* The first request: its key has no bucket yet.
FirstRequest ==
  /\ ret = NoCall
  /\ LET key == getClientKey(arg.headers)
         decision == rateLimitMiddleware(NoBucket, 1, 0)
     IN ret' = [fn |-> "rateLimitMiddleware", calls |-> 1, key |-> key,
                firstHeaders |-> arg.headers, map |-> [k \in {key} |-> decision.bucket],
                proceed |-> decision.proceed]
  /\ UNCHANGED <<arg, restVars>>

\* The second request: buckets.get(key) finds the first one's bucket or none.
SecondRequest ==
  /\ ret # NoCall /\ ret.calls = 1
  /\ \E headers \in HeaderSets :
       LET key == getClientKey(headers)
           bucket == IF key \in DOMAIN ret.map THEN ret.map[key] ELSE NoBucket
           decision == rateLimitMiddleware(bucket, 1, 0)
       IN /\ arg' = [arg EXCEPT !.headers = headers]
          /\ ret' = [ret EXCEPT !.calls = 2, !.key = key,
                                !.map = [k \in DOMAIN ret.map \cup {key} |->
                                           IF k = key THEN decision.bucket
                                           ELSE ret.map[k]],
                                !.proceed = decision.proceed]
  /\ UNCHANGED restVars

NextClient == FirstRequest \/ SecondRequest

SpecClient == InitClient /\ [][NextClient]_vars

\* ---------------------------------------------- normalizeCountByPopulation
\* population maps a period to the rows the population aggregate returns
\* when that period is requested.  A rate is the exact fraction n / d.

\* Variant: a territory without a usable population keeps its count.
normalizeCountByPopulationKeepAll(countPoints, level, code, populationYear, population) ==
  countPoints
\* populationYear = 2022 when the caller passes none.
normalizeCountByPopulation(countPoints, level, code, populationYear, population) ==
  LET year == IF populationYear = Unset THEN 2022 ELSE populationYear.v
      populationPoints == fetchAggregateSeries(level, year, code, population[year])
      populationOf(item) == mapGet(populationPoints, item.code)
      usable(item) ==
        /\ populationOf(item) # Missing
        /\ populationOf(item).value.units > 0
      kept == SelectSeq(countPoints, usable)
      rate(count, pop) ==
        Frac(count.units * (10 ^ pop.scale) * 100000, pop.units * (10 ^ count.scale))
  IN [i \in 1..Len(kept) |->
        [kept[i] EXCEPT !.value = rate(@, populationOf(kept[i]).value)]]

\* fetchIndicatorData, case 'crime_rate' (and 'robbery_rate') for a level
\* other than MUNICIPIO: the counts of `year`, normalised with no fourth
\* argument.
crimeRate(level, year, code, counts, population) ==
  normalizeCountByPopulation(fetchAggregateSeries(level, year, code, counts[year]),
                             level, code, Unset, population)

\* SpecNormalize: the counts of 2021 (the only year of crime_rate) for the
\* UFs 11 and 12, and the population rows of 2021 and of 2022; a UF is
\* missing from a payload or carries one of a few raw values.
InitNormalize ==
  LET rowsOf(year, raws) ==
        {LET present == SelectSeq(<<1, 2>>, LAMBDA i : pick[i] # Unset)
         IN [j \in 1..Len(present) |->
               [id |-> <<Decimal(11), Decimal(12)>>[present[j]],
                serie |-> [y \in {year} |-> pick[present[j]].text]]] :
           pick \in [1..2 -> {Unset} \cup {TextValue(raw) : raw \in raws}]}
      Counts == {Decimal(3), Decimal(12)}
      Populations == {Text.zero, Text.dash \o Decimal(4), Decimal(2), Decimal(4)}
  IN /\ Quiescent
     /\ arg \in [fn : {"crime_rate"}, level : {"UF"}, year : {2021}, code : {Unset},
                 counts : {[y \in {2021} |-> rows] : rows \in rowsOf(2021, Counts)},
                 population : {[y \in {2021, 2022} |->
                                  IF y = 2021 THEN before ELSE census] :
                                 before \in rowsOf(2021, Populations),
                                 census \in rowsOf(2022, Populations)}]
     /\ ret = NoCall

CrimeRate ==
  /\ ret = NoCall
  /\ ret' = [fn |-> "crime_rate",
             points |-> crimeRate(arg.level, arg.year, arg.code, arg.counts,
                                  arg.population)]
  /\ UNCHANGED <<arg, restVars>>

NextNormalize == CrimeRate

SpecNormalize == InitNormalize /\ [][NextNormalize]_vars

\* =================================================================== claims
avail(tier) == IF tier = "edge" THEN env.edge ELSE IF tier = "kv" THEN env.kv ELSE env.db
Available == {t \in TierSet : avail(t)}
Index(tier) == CHOOSE i \in 1..3 : Tiers[i] = tier
store(tier) == IF tier = "edge" THEN edge ELSE IF tier = "kv" THEN kv ELSE pg
NoHit(r) == \A i \in 1..Len(reads[r]) : reads[r][i].out # "hit"
NoFail(r) == \A i \in 1..Len(reads[r]) : reads[r][i].out # "fail"
TiersRead(r) == {reads[r][i].tier : i \in 1..Len(reads[r])}
InCache(r) == rq[r].key # "none"
\* the reads of a call that hit `tier`: a miss in every available faster
\* tier, in probe order, then the hit
ReadsOfHit(tier) ==
  LET IsBefore(t) == Index(t) < Index(tier) /\ avail(t)
      faster == SelectSeq(Tiers, IsBefore)
  IN [i \in 1..Len(faster) |-> Read(faster[i], "miss")] \o <<Read(tier, "hit")>>
\* q had been answered before r entered cachedJson, with the same key
InSequence(q, r) == q # r /\ q \in rq[r].after /\ InCache(q) /\ rq[q].key = rq[r].key
\* no third call uses the key of q and r
OnlyCalls(q, r) == \A x \in Reqs \ {q, r} : rq[x].key # rq[q].key

\* C1: a call answered HIT read the available tiers in the order edge,
\* key-value, relational, missed in every tier before the one it hit, read
\* no tier after it, did not invoke the producer, and returned the payload
\* that tier held under the call's key.
HitIsFirstTierInOrder ==
  /\ [](\A r \in Reqs :
          /\ \A i, j \in 1..Len(reads[r]) :
               i < j => Index(reads[r][i].tier) < Index(reads[r][j].tier)
          /\ resp[r].cache = "HIT" =>
               /\ resp[r].src \in Available
               /\ reads[r] = ReadsOfHit(resp[r].src)
               /\ invoked[r] = 0)
  /\ [][\A r \in Reqs :
          (resp[r].cache # "HIT" /\ resp'[r].cache = "HIT") =>
            /\ store(resp'[r].src)[rq[r].key] # NoEntry
            /\ resp'[r].payload = store(resp'[r].src)[rq[r].key].payload
            /\ resp'[r].status = 200]_vars
HitAfterFasterMiss ==
  \E r \in Reqs :
    /\ resp[r].cache = "HIT" /\ resp[r].src = "kv"
    /\ reads[r] = <<Read("edge", "miss"), Read("kv", "hit")>>
    /\ pg[rq[r].key] # NoEntry

\* C2: a call answered MISS invoked the producer exactly once, returned the
\* producer's fresh result, and handed to waitUntil one write per available
\* tier, each under the call's key and carrying the returned payload.
MissProducesOnceAndWritesAll ==
  /\ [](\A r \in Reqs :
          resp[r].cache = "MISS" =>
            /\ invoked[r] = 1
            /\ NoHit(r)
            /\ resp[r].status = 200
            /\ {t.tier : t \in sched[r]} = Available
            /\ Cardinality(sched[r]) = Cardinality(Available)
            /\ \A t \in sched[r] :
                 t.key = rq[r].key /\ t.payload = resp[r].payload /\ t.ttl = TtlSeconds)
  /\ [][\A r \in Reqs :
          (resp[r].cache # "MISS" /\ resp'[r].cache = "MISS") =>
            /\ produced' = produced + 1
            /\ resp'[r].payload.id = produced'
            /\ sched'[r] \subseteq bg']_vars
MissWritesThreeTiers ==
  \E r \in Reqs :
    /\ resp[r].cache = "MISS"
    /\ Available = TierSet
    /\ Cardinality(sched[r]) = 3

\* C3 (as claimed): a call whose last tier read failed is still answered
\* from the producer: no tier failure ends the call.
TierFailureNeverSurfaced ==
  \A r \in Reqs :
    (pc[r] = "done" /\ reads[r] # <<>> /\ reads[r][Len(reads[r])].out = "fail")
      => invoked[r] = 1

\* C4 (as claimed): two calls with the same key that are in flight together
\* invoke the producer at most once between them.
ConcurrentCallsDeduplicated ==
  \A q, r \in Reqs :
    (q # r /\ InCache(q) /\ InCache(r) /\ rq[q].key = rq[r].key
       /\ q \notin rq[r].after /\ r \notin rq[q].after)
      => invoked[q] + invoked[r] <= 1
\* C4 (amended): every call invokes the producer itself, at most once, and
\* only after each available tier it probed gave no payload; calls are not
\* coalesced.
ProducerOncePerCall ==
  \A r \in Reqs :
    /\ invoked[r] <= 1
    /\ (pc[r] = "producer" \/ resp[r].cache = "MISS") => invoked[r] = 1
    /\ invoked[r] = 1 => NoHit(r) /\ TiersRead(r) = Available
TwoConcurrentCallsBothProduce ==
  \E q, r \in Reqs :
    /\ q # r /\ InCache(q) /\ InCache(r) /\ rq[q].key = rq[r].key
    /\ q \notin rq[r].after /\ r \notin rq[q].after
    /\ resp[q].cache = "MISS" /\ resp[r].cache = "MISS"
    /\ resp[q].payload # resp[r].payload

\* C5 (as claimed): a call made after a call with the same key was answered
\* MISS is answered HIT with that call's payload, without the producer.
SecondCallAlwaysHits ==
  \A q, r \in Reqs :
    (InSequence(q, r) /\ resp[q].cache = "MISS" /\ pc[r] = "done")
      => /\ resp[r].cache = "HIT"
         /\ resp[r].payload.id = resp[q].payload.id
         /\ invoked[r] = 0
\* C5 (amended): after a first call that found every tier empty and was
\* answered MISS, a second call with the same key (no third call using
\* the key) that is answered HIT
\* carries the first call's payload and does not invoke the producer; a
\* second call that no tier answers invokes the producer again and is
\* answered MISS with a new payload.
SecondCallHitsOrRefetches ==
  \A q, r \in Reqs :
    (InSequence(q, r) /\ OnlyCalls(q, r) /\ resp[q].cache = "MISS" /\ NoFail(q)
       /\ pc[r] = "done" /\ resp[r].status = 200)
      => \/ /\ resp[r].cache = "HIT"
            /\ resp[r].payload.id = resp[q].payload.id
            /\ invoked[r] = 0
         \/ /\ resp[r].cache = "MISS"
            /\ resp[r].payload.id # resp[q].payload.id
            /\ invoked[r] = 1
            /\ NoHit(r)
SecondCallHitsFirstPayload ==
  \E q, r \in Reqs :
    /\ InSequence(q, r) /\ OnlyCalls(q, r) /\ resp[q].cache = "MISS" /\ NoFail(q)
    /\ resp[r].cache = "HIT" /\ resp[r].payload.id = resp[q].payload.id
    /\ invoked[r] = 0

\* C6: with the limit at 120 a request proceeds exactly when it is among
\* the first 120 of its 60-second window, the 121st is refused with 429; for
\* every limit a request is refused exactly when its bucket exists, has not
\* run out, and counts at least the limit.
RejectedExactlyAtLimit ==
  rl.client # "none" =>
    /\ rl.limit = 120 => (rl.proceed <=> rl.winN <= 120)
    /\ ~rl.proceed <=>
         (rl.before # NoBucket /\ rl.before.count >= rl.limit
            /\ rl.before.resetAt >= rl.at)
    /\ ~rl.proceed <=> rl.status = 429
    /\ rl.proceed => buckets[rl.client].count <= IF rl.limit > 1 THEN rl.limit ELSE 1
Request121Refused ==
  /\ rl.limit = 120 /\ rl.winN = 121 /\ ~rl.proceed /\ rl.status = 429
  /\ buckets[rl.client].count = 120

\* C7: a request that finds no bucket, or a bucket whose resetAt lies before
\* now, proceeds and leaves the bucket {count: 1, resetAt: now + 60000},
\* whatever the old count was.
RolloverResetsBucket ==
  (rl.client # "none" /\ (rl.before = NoBucket \/ rl.before.resetAt < rl.at)) =>
    /\ rl.proceed
    /\ buckets[rl.client] = [count |-> 1, resetAt |-> rl.at + 60000]
RolloverAtLimit ==
  /\ rl.client # "none" /\ rl.before # NoBucket
  /\ rl.before.resetAt < rl.at
  /\ rl.before.count >= rl.limit /\ rl.limit = 120
  /\ rl.proceed

\* C8: an /api request is validated, reads a tier or runs a producer only
\* after the rate limiter let it pass; a request refused with 429 has no
\* validation result, no cache key, no tier read, no scheduled write and no
\* producer invocation.
RateLimiterRunsFirst ==
  \A r \in Reqs :
    /\ (pc[r] \in {"route", "edge", "kv", "pg", "producer"} \/ InCache(r)
          \/ reads[r] # <<>> \/ invoked[r] > 0 \/ sched[r] # {}
          \/ resp[r].code \in {"UNSUPPORTED_YEAR", "INDICATOR_NOT_IMPLEMENTED",
                               "INTERNAL_ERROR", "IBGE_REQUEST_FAILED"}
          \/ resp[r].cache \in {"HIT", "MISS"})
         => rq[r].rlimit = "passed"
    /\ rq[r].rlimit = "rejected" =>
         /\ pc[r] = "done"
         /\ resp[r].status = 429 /\ resp[r].code = "RATE_LIMITED"
         /\ ~InCache(r) /\ reads[r] = <<>> /\ invoked[r] = 0 /\ sched[r] = {}
         /\ \A t \in bg : t.by # r
    /\ rq[r].route \in {"data", "city-profile"} =>
         rq[r].rlimit \in {"passed", "rejected"}
RefusedWhileOtherServed ==
  \E q, r \in Reqs :
    /\ rq[r].rlimit = "rejected" /\ resp[r].status = 429
    /\ rq[q].rlimit = "passed" /\ resp[q].cache = "MISS"

\* C9: a call answered from the key-value store hands to waitUntil exactly
\* one write, to the edge cache; a call answered from the relational store
\* one to the edge cache and one to the key-value store (each only if the
\* tier exists); a call answered from the edge cache none.  Every such
\* write carries the call's key and the payload returned, and the producer
\* is not invoked.
HitRefillsFasterTiers ==
  /\ [](\A r \in Reqs :
          resp[r].cache = "HIT" =>
            /\ {t.tier : t \in sched[r]}
                 = {t \in Available : Index(t) < Index(resp[r].src)}
            /\ Cardinality(sched[r])
                 = Cardinality({t \in Available : Index(t) < Index(resp[r].src)})
            /\ \A t \in sched[r] :
                 t.key = rq[r].key /\ t.payload = resp[r].payload /\ t.ttl = TtlSeconds
            /\ invoked[r] = 0)
  /\ [][\A r \in Reqs :
          (resp[r].cache # "HIT" /\ resp'[r].cache = "HIT") =>
            /\ sched'[r] \subseteq bg'
            /\ produced' = produced]_vars
RelationalHitRefillsTwo ==
  \E r \in Reqs :
    /\ resp[r].cache = "HIT" /\ resp[r].src = "pg"
    /\ {t.tier : t \in sched[r]} = {"edge", "kv"}

\* C10: no call reads or writes a tier that is absent; with all three
\* absent every call that enters cachedJson invokes the producer once and,
\* unless the producer throws, is answered MISS with the producer's result.
AbsentTierIsSkipped ==
  /\ \A r \in Reqs :
       /\ TiersRead(r) \subseteq Available
       /\ \A t \in sched[r] : t.tier \in Available
       /\ (Available = {} /\ InCache(r) /\ pc[r] = "done") =>
            /\ invoked[r] = 1
            /\ reads[r] = <<>> /\ sched[r] = {}
            /\ resp[r].status = 200 => resp[r].cache = "MISS" /\ resp[r].src = "producer"
            /\ resp[r].status # 200 =>
                 resp[r].code \in {"INTERNAL_ERROR", "IBGE_REQUEST_FAILED"}
  /\ \A t \in bg : t.tier \in Available
  /\ \A t \in TierSet \ Available : store(t) = EmptyStore
NoTierAtAllMisses ==
  \E r \in Reqs :
    /\ Available = {} /\ pc[r] = "done"
    /\ resp[r].cache = "MISS" /\ invoked[r] = 1 /\ reads[r] = <<>>

\* C11: the key derived for a namespace and a parameter bag does not depend
\* on the order the parameters were inserted in: every reordering of the
\* bag gives the key the call returned, and a call with the bag reordered
\* returns the key of the call before it.
KeyIsOrderIndependent ==
  /\ [](ret # NoCall =>
          \A q \in Reorderings(arg.params) :
            cacheKeyFrom(arg.namespace, q) = ret.key)
  /\ [][(ret # NoCall /\ ret' # NoCall) => ret'.key = ret.key]_vars
KeyOfReorderedBag ==
  /\ ret # NoCall /\ ret.calls = 2
  /\ Len(arg.params) = 3
  /\ objectKeys(arg.params) = <<Text.year, Text.limit, Text.level>>
  /\ ret.key = Text.data \o <<CodeUnit.colon, CodeUnit.colon>> \o Text.level \o <<CodeUnit.colon>> \o Text.UF \o <<CodeUnit.pipe>>
                 \o Text.limit \o <<CodeUnit.colon, CodeUnit.pipe>>
                 \o Text.year \o <<CodeUnit.colon, 50, 48, 50, 50>>

\* C12: a relational read that finds a row whose expires_at is not after
\* the clock returns no payload: the call is not answered from the
\* relational tier, the read counts as a miss and the producer is invoked
\* in the same step.
ExpiredRowIsNeverServed ==
  [][\A r \in Reqs :
       (pc[r] = "pg" /\ pc'[r] # "pg" /\ env.db
          /\ pg[rq[r].key] # NoEntry /\ pg[rq[r].key].expiresAt <= now)
         => /\ resp'[r].cache # "HIT"
            /\ resp'[r] = resp[r]
            /\ invoked'[r] = invoked[r] + 1
            /\ pc'[r] = "producer"
            /\ sched'[r] = sched[r]
            /\ reads'[r][Len(reads'[r])].tier = "pg"
            /\ reads'[r][Len(reads'[r])].out # "hit"]_vars
ExpiredRowRefetched ==
  \E r \in Reqs :
    /\ env.db /\ InCache(r)
    /\ pg[rq[r].key] # NoEntry /\ pg[rq[r].key].expiresAt <= now
    /\ reads[r] # <<>> /\ reads[r][Len(reads[r])] = Read("pg", "miss")
    /\ resp[r].cache = "MISS" /\ invoked[r] = 1
    /\ resp[r].payload # pg[rq[r].key].payload

hasDigit(text) == \E i \in 1..Len(text) : isDigit(text[i])

\* C13 (as claimed): every point fetchAggregateSeries emits comes from a row
\* that holds a raw value denoting a number (the serie is not empty and the
\* text has a digit) and carries that number; a row with an empty serie or
\* a marker such as '-', '...' or 'X' gives no point, in particular no
\* point of value 0.
UnparseableValueIsDropped ==
  ret # NoCall =>
    \A k \in 1..Len(ret.points) :
      \E i \in 1..Len(arg.rows) :
        /\ arg.rows[i].id = ret.points[k].code
        /\ DOMAIN arg.rows[i].serie # {}
        /\ hasDigit(rawValueOf(arg.rows[i].serie, arg.year))
        /\ ret.points[k].value = toNumericValue(rawValueOf(arg.rows[i].serie, arg.year))

\* C14 (as claimed): the writings of one decimal numeral under the two
\* separator conventions (',' decimal with '.' thousands, '.' decimal with
\* ',' thousands, grouped or not) all parse to the same number, the one
\* the numeral denotes.
SameValueUnderEitherConvention ==
  ret # NoCall =>
    /\ ret.value = denoted(arg.numeral)
    /\ \A w \in Writings(arg.numeral) : toNumericValue(w) = ret.value

\* The ancestor a municipality m takes its value from: its UF (parentCode,
\* else the first two characters of its code) or that UF's region.
ancestorCode(m) ==
  LET uf == IF m.parentCode # Null THEN m.parentCode.text ELSE SubSeq(m.code, 1, 2)
  IN IF arg.from = "UF" THEN uf
     ELSE IF \E i \in 1..Len(arg.ufs) :
               arg.ufs[i].code = uf /\ arg.ufs[i].parentCode # Null
          THEN (CHOOSE t \in {arg.ufs[i] : i \in 1..Len(arg.ufs)} :
                  t.code = uf).parentCode.text
          ELSE <<>>
coarseHas(code) == \E i \in 1..Len(arg.coarse) : arg.coarse[i].code = code
coarseValue(code) ==
  (CHOOSE pt \in {arg.coarse[i] : i \in 1..Len(arg.coarse)} : pt.code = code).value
pointsOf(code) == {k \in 1..Len(ret.points) : ret.points[k].code = code}

\* C15: the expansion gives every municipality in scope whose ancestor has
\* a value in the coarse series exactly one point, carrying that value, and
\* gives a municipality whose ancestor has no value no point at all (not a
\* point of value 0); it emits nothing else.
DescendantTakesAncestorValue ==
  ret # NoCall =>
    /\ \A i \in 1..Len(arg.municipios) :
         LET m == arg.municipios[i]
         IN IF coarseHas(ancestorCode(m))
            THEN /\ Cardinality(pointsOf(m.code)) = 1
                 /\ \A k \in pointsOf(m.code) :
                      ret.points[k].value = coarseValue(ancestorCode(m))
            ELSE pointsOf(m.code) = {}
    /\ \A k \in 1..Len(ret.points) :
         \E i \in 1..Len(arg.municipios) : arg.municipios[i].code = ret.points[k].code
ThreeOfAAndTwoOfB ==
  /\ ret # NoCall /\ arg.from = "UF"
  /\ arg.coarse = <<Point(Decimal(11), Finite(10, 0)), Point(Decimal(12), Finite(20, 0))>>
  /\ Len(arg.municipios) = 6
  /\ \E i \in 1..6 : arg.municipios[i].parentCode = Null
  /\ Len(ret.points) = 5
  /\ Cardinality({k \in 1..5 : ret.points[k].value = Finite(10, 0)}) = 3
  /\ Cardinality({k \in 1..5 : ret.points[k].value = Finite(20, 0)}) = 2

\* The components that have a value for a territory, and the score the
\* claim describes: the weighted average over those components only.
observed(code) ==
  {k \in 1..Len(arg.components) : mapGet(arg.payloads[k], code) # Missing}
RECURSIVE observedSum(_, _, _)
observedSum(code, ks, weighted) ==
  IF ks = {} THEN Frac(0, 1)
  ELSE LET k == CHOOSE x \in ks : TRUE
           rest == observedSum(code, ks \ {k}, weighted)
           term == IF weighted
                   THEN directed(arg.components[k].direction,
                                 baseValueOf(arg.payloads[k], code))
                   ELSE Frac(1, 1)
       IN Frac(rest.n * term.d + term.n * arg.components[k].weight * rest.d,
               rest.d * term.d)
observedAverage(code) ==
  LET num == observedSum(code, observed(code), TRUE)
      den == observedSum(code, observed(code), FALSE)
  IN Finite((2 * num.n * den.d * 10000 + num.d * den.n) \div (2 * num.d * den.n), 2)
scoreIn(data, code) == mapGet(data.items, code).value

\* C16 (as claimed): the score of every territory is the weighted average
\* of the components that have a value for it, divided by the sum of the
\* weights of those components alone.
ScoreAveragesObservedOnly ==
  ret # NoCall =>
    \A k \in 1..Len(ret.data.items) :
      ret.data.items[k].value = observedAverage(ret.data.items[k].code)

\* The case of C17: two equally weighted components, the first positive and
\* the second negative; territory `code` has the minimum of the first
\* component's values and the maximum of the second's.
MinOnFirstMaxOnSecond(code) ==
  /\ Len(arg.components) = 2
  /\ arg.components[1].weight = arg.components[2].weight
  /\ arg.components[1].direction = "positive"
  /\ arg.components[2].direction = "negative"
  /\ mapGet(arg.payloads[1], code) # Missing
  /\ mapGet(arg.payloads[2], code) # Missing
  /\ mapGet(arg.payloads[1], code).value = minOf(arg.payloads[1])
  /\ mapGet(arg.payloads[2], code).value = maxOf(arg.payloads[2])
spanOf(k) == maxOf(arg.payloads[k]) - minOf(arg.payloads[k])
scoresOf(data) == {hundredths(data.items[k].value) : k \in 1..Len(data.items)}

\* C17 (as claimed): in that case the territory's final score is the
\* midpoint of the observed range: 50 on the scale of 0 to 100, or halfway
\* between the lowest and the highest score of the result.
MinMaxTerritoryScoresMidpoint ==
  ret # NoCall =>
    \A i \in 1..Len(ret.data.items) :
      LET code == ret.data.items[i].code
          score == hundredths(ret.data.items[i].value)
      IN MinOnFirstMaxOnSecond(code) =>
           \/ score = 5000
           \/ \E lo, hi \in scoresOf(ret.data) :
                /\ \A x \in scoresOf(ret.data) : lo <= x /\ x <= hi
                /\ 2 * score = lo + hi
\* C17 (amended): in that case, when each component takes at least two
\* different values, the territory's final score is 0, the lowest of the
\* result: it is the worst on both components once the second is flipped.
MinMaxTerritoryScoresZero ==
  ret # NoCall =>
    \A i \in 1..Len(ret.data.items) :
      LET code == ret.data.items[i].code
      IN (MinOnFirstMaxOnSecond(code) /\ spanOf(1) > 0 /\ spanOf(2) > 0) =>
           /\ ret.data.items[i].value = Finite(0, 0)
           /\ \A x \in scoresOf(ret.data) : x >= 0
WorstOnBothScoresZero ==
  /\ ret # NoCall
  /\ MinOnFirstMaxOnSecond(Decimal(11)) /\ spanOf(1) > 0 /\ spanOf(2) > 0
  /\ scoreIn(ret.data, Decimal(11)) = Finite(0, 0)
  /\ scoreIn(ret.data, Decimal(12)) = Finite(100, 0)
  /\ ret.data.count = 3

\* C18: a response of the upstream API that is not 2xx reaches the client
\* as an error with a 502 or 503 status, whatever the upstream status was.
UpstreamFailureIs502Or503 ==
  \A r \in Reqs :
    (pc[r] = "done" /\ resp[r].code = "IBGE_REQUEST_FAILED") =>
      resp[r].status \in {502, 503}

\* a finished request whose upstream call failed
upstreamFailed(r) == pc[r] = "done" /\ rq[r].upstream = "failed"
\* the error responses an upstream failure can become at the boundary
UpstreamErrorResponses ==
  {toErrorResponse(fetchJson(a).error) : a \in FailedAnswers}

\* C19: on every route that calls the fetcher, the municipality profile
\* included, a failed upstream call becomes the request's error response
\* and the URL of the failed call was requested once.
UpstreamFailurePropagatesOnEveryRoute ==
  \A r \in Reqs :
    upstreamFailed(r) =>
      /\ resp[r] \in UpstreamErrorResponses
      /\ rq[r].fetches = 1
\* C19 (amended): on the series route a failed upstream call becomes the
\* request's error response; on the municipality profile route the failed
\* call is absorbed and the request is answered 200; on both routes the
\* URL of the failed call was requested once.
UpstreamFailurePropagatesOnSeriesRoute ==
  \A r \in Reqs :
    upstreamFailed(r) =>
      /\ rq[r].fetches = 1
      /\ rq[r].route = "data" =>
           /\ resp[r] \in UpstreamErrorResponses
           /\ sched[r] = {}
      /\ rq[r].route = "city-profile" =>
           /\ resp[r].status = 200 /\ resp[r].cache = "MISS"
           /\ sched[r] # {}
FailureOnBothRoutes ==
  \E r, q \in Reqs :
    /\ upstreamFailed(r) /\ rq[r].route = "data"
    /\ resp[r] = ApiError(404, "IBGE_REQUEST_FAILED")
    /\ upstreamFailed(q) /\ rq[q].route = "city-profile"
    /\ resp[q].status = 200

\* no background write of request r is pending
noWriteOf(r) == \A t \in bg : t.by # r

\* C20: a series request for a catalogue entry marked unsupported fails
\* with 501 INDICATOR_NOT_IMPLEMENTED before any cache tier is read and
\* without an upstream call, and nothing of it is written to a tier.
UnsupportedEntryFailsBeforeCache ==
  \A r \in Reqs :
    /\ rq[r].entry = "unsupported" =>
         /\ pc[r] = "done"
         /\ resp[r] = ApiError(501, "INDICATOR_NOT_IMPLEMENTED")
         /\ ~InCache(r)
         /\ reads[r] = <<>>
         /\ invoked[r] = 0 /\ rq[r].upstream = "none" /\ rq[r].fetches = 0
         /\ sched[r] = {} /\ noWriteOf(r)
    /\ (pc[r] = "done" /\ resp[r].code = "INDICATOR_NOT_IMPLEMENTED") =>
         rq[r].entry = "unsupported"
UnsupportedRefusedWhileCacheInUse ==
  \E r, q \in Reqs :
    /\ rq[r].entry = "unsupported" /\ resp[r].status = 501
    /\ rq[q].entry = "supported" /\ pc[q] = "done" /\ resp[q].cache = "MISS"
    /\ edge # EmptyStore

\* no address header at all
noAddress(headers) == headers.cf = Null /\ headers.xff = Null
\* k is the first comma-separated entry of text, white space around it apart
isLeftmostEntry(text, k) ==
  /\ k # <<>> /\ ~includes(k, CodeUnit.comma)
  /\ k[1] # CodeUnit.space /\ k[Len(k)] # CodeUnit.space
  /\ \E a \in 0..Len(text), b \in 0..Len(text) :
       /\ a + Len(k) <= b
       /\ SubSeq(text, a + 1, a + Len(k)) = k
       /\ \A i \in (1..a) \cup ((a + Len(k) + 1)..b) : text[i] = CodeUnit.space
       /\ b = Len(text) \/ text[b + 1] = CodeUnit.comma
entriesOf(text) ==
  {SubSeq(text, i, j) : i \in 1..Len(text), j \in 1..Len(text)}

\* C21: the client key is cf-connecting-ip when Cloudflare supplies it,
\* otherwise the leftmost entry of x-forwarded-for, and 'anonymous' when
\* no address header is present; two requests without an address header
\* share one bucket and are limited together.
ClientKeyIsLeftmostForwardedAddress ==
  ret # NoCall =>
    LET h == arg.headers
        noCf == h.cf = Null \/ h.cf.text = <<>>
    IN /\ noAddress(h) => ret.key = Text.anonymous
       /\ ~noCf => ret.key = h.cf.text
       /\ (noCf /\ h.xff # Null) =>
            IF ret.key = Text.anonymous
            THEN \A k \in entriesOf(h.xff.text) : ~isLeftmostEntry(h.xff.text, k)
            ELSE isLeftmostEntry(h.xff.text, ret.key)
       /\ (ret.calls = 2 /\ noAddress(h) /\ noAddress(ret.firstHeaders)) =>
            /\ ~ret.proceed
            /\ DOMAIN ret.map = {Text.anonymous}
            /\ ret.map[Text.anonymous].count = 1
AnonymousRequestsShareBucket ==
  /\ ret # NoCall /\ ret.calls = 2
  /\ noAddress(arg.headers) /\ noAddress(ret.firstHeaders)
  /\ ret.key = Text.anonymous /\ ~ret.proceed

\* C22: on the miss path the response is there in the very step in which
\* the producer's result is known, with every write of the call still
\* pending; a write that settles later, is refused by its store or never
\* settles leaves the response as it was.
ResponseDoesNotWaitForWrites ==
  [][\A r \in Reqs :
       /\ (pc[r] = "producer" /\ pc'[r] # "producer") =>
            /\ pc'[r] = "done"
            /\ resp'[r].status = 200 =>
                 /\ resp'[r].cache = "MISS"
                 /\ sched'[r] = writesOnMiss(rq[r].key, resp'[r].payload, Ttl, r)
                 /\ sched'[r] \subseteq bg'
                 /\ <<edge', kv', pg'>> = <<edge, kv, pg>>
       /\ pc[r] = "done" => (pc'[r] = "done" /\ resp'[r] = resp[r])]_vars
MissAnsweredWhileWritesPending ==
  \E r \in Reqs :
    /\ pc[r] = "done" /\ resp[r].cache = "MISS"
    /\ Cardinality(sched[r]) = 3 /\ sched[r] \subseteq bg
    /\ \E q \in Reqs :
         /\ q # r /\ pc[q] = "done" /\ resp[q].cache = "MISS"
         /\ \E t \in sched[q] : t.tier = "pg" /\ t \notin bg /\ pg[t.key] = NoEntry

\* the number a payload gives for a territory in a period, or Missing
numberIn(rows, year, code) ==
  IF \E i \in 1..Len(rows) : rows[i].id = code
  THEN toNumericValue(rows[CHOOSE i \in 1..Len(rows) : rows[i].id = code].serie[year])
  ELSE Missing
\* the output holds, for each territory with a count and a population above
\* zero in `year`, one point of value count / population * 100000, and no
\* point for any other territory
ratesAgainst(year) ==
  \A code \in {Decimal(11), Decimal(12)} :
    LET count == numberIn(arg.counts[arg.year], arg.year, code)
        pop == numberIn(arg.population[year], year, code)
        out == SelectSeq(ret.points, LAMBDA point : point.code = code)
    IN IF count # Missing /\ pop # Missing /\ pop # NaN /\ pop.units > 0
       THEN /\ Len(out) = 1
            /\ out[1].value.n * pop.units * (10 ^ count.scale)
                 = count.units * (10 ^ pop.scale) * 100000 * out[1].value.d
       ELSE out = <<>>

\* C23: counts become rates against the population of the same territory
\* set and the same year as the counts: count / population * 100000, and a
\* territory with no population point or a population of zero or less is
\* absent from the output.
RatesUsePopulationOfCountYear == ret # NoCall => ratesAgainst(arg.year)
\* C23 (amended): the population is that of the fixed period 2022, whatever
\* the year of the counts.
RatesUsePopulationOf2022 == ret # NoCall => ratesAgainst(2022)
RateWithCensusPopulation ==
  /\ ret # NoCall
  /\ numberIn(arg.population[2021], 2021, Decimal(11)) = Finite(2, 0)
  /\ numberIn(arg.population[2022], 2022, Decimal(11)) = Finite(4, 0)
  /\ numberIn(arg.population[2022], 2022, Decimal(12)) = Finite(0, 0)
  /\ ret.points = <<[code |-> Decimal(11), value |-> Frac(300000, 4)]>>

\* C24: a /api/data request whose effective year lies outside the range of
\* its (supported) indicator is answered 400 UNSUPPORTED_YEAR before
\* cachedJson is called: no tier is read or written and the producer is not
\* invoked; and only such a request gets that answer.
YearOutOfRangeFailsBeforeCache ==
  \A r \in Reqs :
    /\ (rq[r].year = "outside" /\ rq[r].entry = "supported") =>
         /\ pc[r] = "done"
         /\ resp[r] = ApiError(400, "UNSUPPORTED_YEAR")
         /\ ~InCache(r) /\ reads[r] = <<>>
         /\ invoked[r] = 0 /\ rq[r].fetches = 0
         /\ sched[r] = {} /\ noWriteOf(r)
    /\ (pc[r] = "done" /\ resp[r].code = "UNSUPPORTED_YEAR") =>
         rq[r].year = "outside"
YearRefusedWhileCacheInUse ==
  \E r, q \in Reqs :
    /\ rq[r].year = "outside" /\ resp[r].status = 400
    /\ rq[q].year = "inside" /\ pc[q] = "done" /\ resp[q].cache = "HIT"
    /\ r \notin rq[q].after

\* the requests of client c admitted since its bucket was created
admittedIn(c) ==
  {r \in Reqs : /\ rq[r].client = c /\ rq[r].rlimit = "passed"
                /\ buckets[c].resetAt - WindowMs <= rq[r].at
                /\ rq[r].at <= buckets[c].resetAt}

\* C25: whatever handlers are suspended while others arrive, the count a
\* bucket stores is the number of requests admitted since the bucket was
\* created, and that number never exceeds max(limit, 1).
AdmittedNeverExceedLimit ==
  \A c \in Clients :
    buckets[c] # NoBucket =>
      /\ buckets[c].count = Cardinality(admittedIn(c))
      /\ buckets[c].count <= IF LimitOf(env) > 1 THEN LimitOf(env) ELSE 1
RefusedWhileFirstSuspended ==
  \E r, q \in Reqs, c \in Clients :
    /\ rq[r].client = c /\ rq[q].client = c
    /\ rq[r].rlimit = "passed" /\ pc[r] = "producer"
    /\ rq[q].rlimit = "rejected" /\ rq[q].at = rq[r].at
    /\ buckets[c].count = 1 /\ LimitOf(env) = 1

\* C26: a request refused with 429 leaves the bucket map as it was, so a
\* bucket's resetAt stays 60 seconds after the first request of its window
\* however many requests are refused, and the first request after that
\* resetAt is admitted with a new bucket.
RefusalLeavesBucketsUnchanged ==
  /\ [][(rl' # rl /\ ~rl'.proceed) => buckets' = buckets]_vars
  /\ [](rl.client # "none" =>
          /\ buckets[rl.client].resetAt = rl.winStart + WindowMs
          /\ (rl.before # NoBucket /\ rl.at > rl.before.resetAt) =>
               (rl.proceed /\ rl.winN = 1 /\ buckets[rl.client].count = 1))
RefusedAgainAtEndOfWindow ==
  /\ rl.client # "none" /\ ~rl.proceed
  /\ rl.winN >= rl.limit + 2
  /\ rl.at = rl.before.resetAt
  /\ buckets[rl.client] = rl.before

\* C27: two parameter bags under one namespace that differ in the value of
\* some parameter never get the same key, also when the values hold ':' or
\* '|'.
DistinctBagsGetDistinctKeys ==
  (/\ ret # NoCall /\ ret.calls = 2
   /\ objectKeys(arg.params) = objectKeys(ret.firstParams)
   /\ \E i \in 1..Len(arg.params) :
        arg.params[i].value # ret.firstParams[i].value)
    => ret.key # ret.first

\* C28: a payload the producer returned at time T, with TTL ttlSeconds, is
\* never answered as a HIT after T + ttlSeconds.  The writes a MISS handed
\* to waitUntil record when, and with which TTL, its payload was produced.
StalenessBoundedByTtl ==
  [][\A r, q \in Reqs :
       (/\ resp[r].cache # "HIT" /\ resp'[r].cache = "HIT"
        /\ resp[q].cache = "MISS"
        /\ resp[q].payload.id = resp'[r].payload.id)
         => \A t \in sched[q] : now <= t.at + t.ttl * 1000]_vars

\* A request whose probes all found nothing and whose producer threw.
threwOnFullMiss(r) ==
  /\ pc[r] = "done" /\ invoked[r] = 1 /\ resp[r].cache # "MISS"
  /\ \A i \in 1..Len(reads[r]) : reads[r][i].out = "miss"

\* C29: when the producer throws on a full miss the error is the response,
\* no write is handed to any tier, and a later call with the same key is
\* not a HIT: unless a tier read of its own rejects, it invokes the
\* producer again.
ErrorsAreNeverCached ==
  \A r \in Reqs : threwOnFullMiss(r) =>
    /\ resp[r].status >= 400
    /\ resp[r].code \in {"IBGE_REQUEST_FAILED", "INTERNAL_ERROR"}
    /\ sched[r] = {}
    /\ \A t \in bg : t.by # r
    /\ \A q \in Reqs :
         (r \in rq[q].after /\ rq[q].key = rq[r].key /\ pc[q] = "done")
           => /\ resp[q].cache # "HIT"
              /\ (\A i \in 1..Len(reads[q]) :
                    reads[q][i].out = "fail" => reads[q][i].tier = "pg")
                   => invoked[q] = 1
ProducerRunsAgainAfterThrow ==
  \E r, q \in Reqs :
    /\ threwOnFullMiss(r) /\ r \in rq[q].after /\ rq[q].key = rq[r].key
    /\ env.edge /\ env.kv /\ env.db
    /\ pc[q] = "done" /\ invoked[q] = 1 /\ resp[q].cache = "MISS"

\* C30: the INSERT of writeToPostgres is accepted by cache_requests: once
\* the write of a full miss has settled, a lookup of its key in the
\* relational tier before its expiry returns the payload it stored.
InsertedRowIsReadBack ==
  [][\A t \in bg :
       (/\ t.tier = "pg" /\ bg' = bg \ {t}
        /\ now < t.at + t.ttl * 1000)
         => readFromPostgres(pg', t.key, now).id = t.payload.id]_vars

====
